---- MODULE Spec2Model ----
(***************************************************************************)
(* Model of the colour-group extraction engine and the layer-edit history  *)
(* of the Image Color Extractor (src/App.tsx, utils/imageProcessor.ts,     *)
(* utils/colorUtils.ts).                                                   *)
(*                                                                         *)
(* Array indices are kept 0-based as in the source; At(s, i) reads the     *)
(* element at JavaScript index i of the sequence s.                        *)
(***************************************************************************)
EXTENDS Integers, Sequences, FiniteSets, TLC

(***************************************************************************)
(* Bounds of the model                                                     *)
(***************************************************************************)
\* longest SVG document (number of shape elements) fed to processSVG
MaxShapes == 4

\* largest bitmap (number of pixels) fed to processRaster
MaxPixels == 4

(***************************************************************************)
(* Generic array helpers (JavaScript Array semantics, 0-based)             *)
(***************************************************************************)
At(s, i) == s[i + 1]

Indices(s) == 0 .. (Len(s) - 1)

\* s.filter((_, index) => index # i)
RemoveAt(s, i) == [k \in 1 .. (Len(s) - 1) |-> IF k <= i THEN s[k] ELSE s[k + 1]]

\* s.splice(i, 0, x) for 0 <= i <= s.length
InsertAt(s, i, x) ==
  [k \in 1 .. (Len(s) + 1) |-> IF k <= i THEN s[k] ELSE IF k = i + 1 THEN x ELSE s[k - 1]]

\* copy of s without its last element ([...s] followed by pop())
Front(s) == SubSeq(s, 1, Len(s) - 1)

Last(s) == s[Len(s)]

Range(s) == {s[k] : k \in 1 .. Len(s)}

Min2(a, b) == IF a <= b THEN a ELSE b

SetMin(S) == CHOOSE m \in S : \A n \in S : m <= n

SetMax(S) == CHOOSE m \in S : \A n \in S : m >= n

RECURSIVE FlatMap(_)
\* seqs.flatMap(x => x) for a sequence of sequences
FlatMap(seqs) == IF seqs = <<>> THEN <<>> ELSE Head(seqs) \o FlatMap(Tail(seqs))

(***************************************************************************)
(* ColorMath (utils/colorUtils.ts)                                         *)
(***************************************************************************)
Rgb(r, g, b) == [r |-> r, g |-> g, b |-> b]

\* the square of colorDistance(color1, color2)
ColorDistanceSq(color1, color2) ==
  LET dr == color1.r - color2.r
      dg == color1.g - color2.g
      db == color1.b - color2.b
  IN  dr * dr + dg * dg + db * db

\* colorDistance(c1, c2) < maxDist with maxDist = tolerance * 2.55, in exact integer arithmetic:
\* sqrt(d2) < 255 t / 100  <=>  10000 d2 < (255 t)^2   (both sides >= 0).
\* The IEEE-754 evaluation of the source agrees with this for every
\* tolerance in 0..100 and every pair of 8-bit colours.
BeyondMaxDist(c1, c2, tolerance) ==
  10000 * ColorDistanceSq(c1, c2) > (255 * tolerance) * (255 * tolerance)

\* the comparison with <= for <
AtMostMaxDist(c1, c2, tolerance) ==
  10000 * ColorDistanceSq(c1, c2) <= (255 * tolerance) * (255 * tolerance)

WithinMaxDist(c1, c2, tolerance) ==
  10000 * ColorDistanceSq(c1, c2) < (255 * tolerance) * (255 * tolerance)

(***************************************************************************)
(* Inputs of the model                                                     *)
(***************************************************************************)
\* computed fill of an element that resolves to no colour (parseColorString
\* returns null), kept outside the 8-bit colours
NoFill == [r |-> -1, g |-> -1, b |-> -1]

White == Rgb(255, 255, 255)

\* #F7F7F7, the colour every pure-white fill is replaced by at ingestion
OffWhite == Rgb(247, 247, 247)

\* fill colours of the modelled documents
Palette ==
  {Rgb(0, 0, 0), Rgb(10, 0, 0), Rgb(14, 0, 0), Rgb(16, 0, 0), Rgb(0, 10, 0), White}

\* a shape element as getComputedStyle shows it: its resolved fill and its
\* fill opacity in percent
ElementKinds ==
  [fill : Palette, fillOpacity : {100}]
    \cup {[fill |-> NoFill, fillOpacity |-> 100], [fill |-> Rgb(10, 0, 0), fillOpacity |-> 0]}

\* values of the tolerance slider explored (thresholds 0, 7.65, 12.75, 255)
Tolerances == {0, 3, 5, 100}

RECURSIVE SeqsUpTo(_, _)
\* all sequences over S of length at most n
SeqsUpTo(S, n) ==
  IF n = 0 THEN {<<>>}
  ELSE LET shorter == SeqsUpTo(S, n - 1)
       IN  shorter \cup {Append(s, x) : s \in {t \in shorter : Len(t) = n - 1}, x \in S}

SvgDocuments == SeqsUpTo(ElementKinds, MaxShapes)

\* the pixels of the modelled bitmaps: three reds at distances 7 and 14, pure
\* white, and the alpha values on both sides of 128
PixelKinds ==
  {[r |-> 0, g |-> 0, b |-> 0, a |-> 255], [r |-> 7, g |-> 0, b |-> 0, a |-> 255],
   [r |-> 14, g |-> 0, b |-> 0, a |-> 128], [r |-> 255, g |-> 255, b |-> 255, a |-> 255],
   [r |-> 7, g |-> 0, b |-> 0, a |-> 127]}

Bitmaps == SeqsUpTo(PixelKinds, MaxPixels)

\* values of the tolerance slider explored with the bitmaps (thresholds 0,
\* 7.65 and 255)
RasterTolerances == {0, 3, 100}

(***************************************************************************)
(* VectorClusterer: processSVG (utils/imageProcessor.ts)                   *)
(***************************************************************************)
\* one iteration of elements.forEach: el is the element at document position
\* id; a visible fill is pushed onto paths, white being replaced by #F7F7F7
CollectElement(pathList, el, id) ==
  LET parsed  == el.fill
      isWhite == parsed # NoFill /\ parsed = White
      fill    == IF isWhite THEN OffWhite ELSE parsed
  IN  IF fill # NoFill /\ el.fillOpacity > 0
        THEN Append(pathList, [color |-> fill, element |-> id])
        ELSE pathList

\* best fit in place of first fit: the nearest group within maxDist
FirstFitNearest(groupList, color, tol) ==
  LET hits == {k \in 1 .. Len(groupList) :
                 WithinMaxDist(color, groupList[k].representativeColor, tol)}
  IN  IF hits = {} THEN 0
      ELSE CHOOSE k \in hits :
             \A j \in hits :
               ColorDistanceSq(color, groupList[k].representativeColor)
                 <= ColorDistanceSq(color, groupList[j].representativeColor)

\* the first group, in creation order, whose representative colour is within
\* maxDist of color (1-based position); 0 when there is none (placed stays
\* false)
FirstFit(groupList, color, tol) ==
  LET hits == {k \in 1 .. Len(groupList) :
                 WithinMaxDist(color, groupList[k].representativeColor, tol)}
  IN  IF hits = {} THEN 0 ELSE SetMin(hits)

\* paths.forEach body that overwrites the group's elements instead of pushing
PlacePathDropping(groupList, path, tol) ==
  LET k == FirstFit(groupList, path.color, tol)
  IN  IF k = 0
        THEN Append(groupList, [representativeColor |-> path.color, elements |-> <<path.element>>])
        ELSE [groupList EXCEPT ![k].elements = <<path.element>>]

\* one iteration of paths.forEach
PlacePath(groupList, path, tol) ==
  LET k == FirstFit(groupList, path.color, tol)
  IN  IF k = 0
        THEN Append(groupList, [representativeColor |-> path.color, elements |-> <<path.element>>])
        ELSE [groupList EXCEPT ![k].elements = Append(@, path.element)]

RECURSIVE CollectPaths(_, _, _)
\* elements.forEach from document position id on
CollectPaths(pathList, elements, id) ==
  IF id > Len(elements) THEN pathList
  ELSE CollectPaths(CollectElement(pathList, elements[id], id), elements, id + 1)

RECURSIVE ClusterPaths(_, _, _)
\* paths.forEach over the paths not yet placed
ClusterPaths(groupList, pathList, tol) ==
  IF pathList = <<>> THEN groupList
  ELSE ClusterPaths(PlacePath(groupList, Head(pathList), tol), Tail(pathList), tol)

\* the groups processSVG returns for a document and a tolerance
ProcessSVG(elements, tol) == ClusterPaths(<<>>, CollectPaths(<<>>, elements, 1), tol)

(***************************************************************************)
(* RasterClusterer: processRaster (utils/imageProcessor.ts)                *)
(***************************************************************************)
Pixel(r, g, b, a) == [r |-> r, g |-> g, b |-> b, a |-> a]

\* Math.max(1, Math.floor(Math.sqrt(data.length / 4) / 1000)) for images of
\* fewer than 10^8 pixels
SampleRate(pixelCount) ==
  LET q == CHOOSE k \in 0 .. 9 :
             /\ (1000 * k) * (1000 * k) <= pixelCount
             /\ pixelCount < (1000 * (k + 1)) * (1000 * (k + 1))
  IN  IF q >= 1 THEN q ELSE 1

\* the position of color among the entries of the colour map, 0 when absent
KeyIndex(colorMap, color) ==
  LET hits == {k \in 1 .. Len(colorMap) : colorMap[k].color = color}
  IN  IF hits = {} THEN 0 ELSE CHOOSE k \in hits : TRUE

\* one iteration of the sampling loop: pixels with alpha < 128 are skipped,
\* the others counted under their colour (entries keep insertion order)
CountPixel(colorMap, px) ==
  IF px.a < 128 THEN colorMap
  ELSE LET color == Rgb(px.r, px.g, px.b)
           k     == KeyIndex(colorMap, color)
       IN  IF k = 0 THEN Append(colorMap, [color |-> color, count |-> 1])
           ELSE [colorMap EXCEPT ![k].count = @ + 1]

RECURSIVE SamplePixels(_, _, _, _)
\* for (let i = 0; i < data.length; i += 4 * sampleRate), i = 4 * (p - 1)
SamplePixels(colorMap, pixels, p, sampleRate) ==
  IF p > Len(pixels) THEN colorMap
  ELSE SamplePixels(CountPixel(colorMap, pixels[p]), pixels, p + sampleRate, sampleRate)

\* x put into a sequence sorted by descending field key, after the entries
\* that do not sort behind it (Array.prototype.sort is stable)
InsertDesc(sorted, x, key) ==
  LET before == {k \in 0 .. Len(sorted) : \A j \in 1 .. k : sorted[j][key] >= x[key]}
  IN  InsertAt(sorted, SetMax(before), x)

\* the sequence left in insertion order
Unsorted(sorted, seq, key) == sorted \o seq

RECURSIVE SortDesc(_, _, _)
\* [...seq].sort((a, b) => b[key] - a[key]), appended to the sorted prefix
SortDesc(sorted, seq, key) ==
  IF seq = <<>> THEN sorted
  ELSE SortDesc(InsertDesc(sorted, Head(seq), key), Tail(seq), key)

\* sortedColors.forEach body that adds a joining colour without its count
PlaceColorUncounted(groupList, colorData, tol) ==
  LET k == FirstFit(groupList, colorData.color, tol)
  IN  IF k = 0
        THEN Append(groupList, [representativeColor |-> colorData.color,
                                memberColors |-> <<colorData.color>>,
                                totalCount |-> colorData.count])
        ELSE [groupList EXCEPT ![k].memberColors = Append(@, colorData.color)]

\* the first-fit group of a colour, as in processSVG
PlaceColor(groupList, colorData, tol) ==
  LET k == FirstFit(groupList, colorData.color, tol)
  IN  IF k = 0
        THEN Append(groupList, [representativeColor |-> colorData.color,
                                memberColors |-> <<colorData.color>>,
                                totalCount |-> colorData.count])
        ELSE [groupList EXCEPT ![k].memberColors = Append(@, colorData.color),
                               ![k].totalCount = @ + colorData.count]

RECURSIVE ClusterColors(_, _, _)
\* sortedColors.forEach over the colours not yet placed
ClusterColors(groupList, sortedColors, tol) ==
  IF sortedColors = <<>> THEN groupList
  ELSE ClusterColors(PlaceColor(groupList, Head(sortedColors), tol), Tail(sortedColors), tol)

\* the groups processRaster resolves with for a decoded image and a tolerance
ProcessRaster(pixels, tol) ==
  LET colorMap     == SamplePixels(<<>>, pixels, 1, SampleRate(Len(pixels)))
      sortedColors == SortDesc(<<>>, colorMap, "count")
      clustered    == ClusterColors(<<>>, sortedColors, tol)
  IN  SortDesc(<<>>, clustered, "totalCount")

(***************************************************************************)
(* Raster reconstruction: ReassembledPreview and downloadPng (App.tsx)     *)
(***************************************************************************)
\* a pixel of createImageData: all four channels 0
Blank == Pixel(0, 0, 0, 0)

\* bestGroupIndex = -1, minDistance = Infinity
NoBest == [index |-> -1, distSq |-> -1]

\* the same update taking the later group at equal distance (dist <= minDistance)
CloserOrEqualGroup(best, j, distSq) ==
  IF best.index = -1 \/ distSq <= best.distSq THEN [index |-> j, distSq |-> distSq]
  ELSE best

\* if (dist < minDistance) { minDistance = dist; bestGroupIndex = j; }
\* (the square root is monotonic: distances compare as their squares)
CloserGroup(best, j, distSq) ==
  IF best.index = -1 \/ distSq < best.distSq THEN [index |-> j, distSq |-> distSq]
  ELSE best

RECURSIVE NearestFrom(_, _, _, _)
\* for (let j = 0; j < colorGroups.length; j++), from index j on
NearestFrom(best, list, j, pixelColor) ==
  IF j >= Len(list) THEN best
  ELSE NearestFrom(
         CloserGroup(best, j, ColorDistanceSq(pixelColor, At(list, j).representativeColor)),
         list, j + 1, pixelColor)

\* bestGroupIndex after the loop, and whether minDistance < maxDist
BestGroup(list, px, tol) ==
  LET pixelColor == Rgb(px.r, px.g, px.b)
      best       == NearestFrom(NoBest, list, 0, pixelColor)
  IN  [index  |-> best.index,
       within |-> /\ best.index # -1
                  /\ WithinMaxDist(pixelColor, At(list, best.index).representativeColor, tol)]

\* the preview's pixel for a source pixel
PreviewPixel(list, px, tol) ==
  IF px.a < 128 THEN Blank
  ELSE LET best == BestGroup(list, px, tol)
       IN  IF best.index # -1 /\ best.within
             THEN LET repColor == At(list, best.index).representativeColor
                  IN  Pixel(repColor.r, repColor.g, repColor.b, 255)
             ELSE Blank

\* newImageData of the preview effect
PreviewImage(list, data, tol) ==
  [p \in 1 .. Len(data) |-> PreviewPixel(list, data[p], tol)]

\* colorGroups.findIndex(g => g.representativeColor === group.representativeColor):
\* the colours of one decoded image are one object per distinct colour, so
\* within one decomposition identity is equality
FindIndex(list, group) ==
  LET hits == {j \in Indices(list) :
                 At(list, j).representativeColor = group.representativeColor}
  IN  IF hits = {} THEN -1 ELSE SetMin(hits)

\* the export's pixel for a source pixel
ExportPixel(list, groupIndex, px, tol) ==
  IF px.a < 128 THEN Blank
  ELSE LET best == BestGroup(list, px, tol)
       IN  IF best.index = groupIndex /\ best.within THEN px ELSE Blank

\* newImageData of downloadPng for the card at index
ExportImage(list, index, data, tol) ==
  LET groupIndex == FindIndex(list, At(list, index))
  IN  [p \in 1 .. Len(data) |-> ExportPixel(list, groupIndex, data[p], tol)]

(***************************************************************************)
(* Normalisation to the 600 x 600 canvas: transformSvgElements (App.tsx)   *)
(* Numbers are exact fractions <<numerator, denominator>>; NaN is <<0, 0>>. *)
(***************************************************************************)
\* most commands in a d attribute of the modelled paths
MaxCommands == 2

RECURSIVE Gcd(_, _)
Gcd(a, b) == IF b = 0 THEN a ELSE Gcd(b, a % b)

Abs(n) == IF n < 0 THEN -n ELSE n

NotANumber == <<0, 0>>

IsNaN(q) == q[2] = 0

\* the fraction n / d in lowest terms with a positive denominator
Fraction(n, d) ==
  IF d = 0 THEN NotANumber
  ELSE LET g == Gcd(Abs(n), Abs(d))
           s == IF d < 0 THEN -1 ELSE 1
       IN  <<(s * n) \div g, (s * d) \div g>>

Number(n) == <<n, 1>>

Plus(p, q) ==
  IF IsNaN(p) \/ IsNaN(q) THEN NotANumber
  ELSE Fraction(p[1] * q[2] + q[1] * p[2], p[2] * q[2])

Minus(p, q) ==
  IF IsNaN(p) \/ IsNaN(q) THEN NotANumber
  ELSE Fraction(p[1] * q[2] - q[1] * p[2], p[2] * q[2])

Times(p, q) ==
  IF IsNaN(p) \/ IsNaN(q) THEN NotANumber ELSE Fraction(p[1] * q[1], p[2] * q[2])

\* p / q for q # 0
Over(p, q) ==
  IF IsNaN(p) \/ IsNaN(q) THEN NotANumber ELSE Fraction(p[1] * q[2], p[2] * q[1])

\* p <= q; false when either is NaN
AtMost(p, q) == ~IsNaN(p) /\ ~IsNaN(q) /\ p[1] * q[2] <= q[1] * p[2]

\* Math.min(p, q)
MathMin(p, q) ==
  IF IsNaN(p) \/ IsNaN(q) THEN NotANumber ELSE IF AtMost(p, q) THEN p ELSE q

\* an attribute that is absent (getAttribute returns null), or empty
NoAttribute == <<>>

\* parseFloat of one part of the viewBox string: the number the part starts
\* with, NaN when it starts with none
ParseFloat(part) == IF part.digits = <<>> THEN NotANumber ELSE Number(part.digits[1])

\* the part as `${n}` writes a number
NumberPart(n) == [digits |-> <<n>>, tail |-> ""]

\* dimensions.viewBox || `0 0 ${dimensions.width} ${dimensions.height}`,
\* split at blanks and commas
ViewBoxString(dims) ==
  IF dims.viewBox # NoAttribute THEN dims.viewBox
  ELSE <<NumberPart(0), NumberPart(0), NumberPart(dims.width), NumberPart(dims.height)>>

ViewBoxParts(dims) ==
  LET parts == ViewBoxString(dims) IN [k \in DOMAIN parts |-> ParseFloat(parts[k])]

\* dimensions: null
NoDimensions == [null |-> TRUE]

\* the guards of lines 57-64: the elements are returned as they are
ReturnsUnmodified(dims) ==
  \/ dims = NoDimensions
  \/ LET viewBoxParts == ViewBoxParts(dims)
     IN  \/ Len(viewBoxParts) # 4
         \/ \E k \in DOMAIN viewBoxParts : IsNaN(viewBoxParts[k])
         \/ AtMost(viewBoxParts[3], Number(0))
         \/ AtMost(viewBoxParts[4], Number(0))

TargetSize == Number(600)

\* scale = Math.min(targetWidth / w, targetHeight / h)
Scale(box) == MathMin(Over(TargetSize, box[3]), Over(TargetSize, box[4]))

LowerCase ==
  {"m", "l", "h", "v", "c", "s", "q", "t", "a", "z"}

ToLowerCase(command) ==
  CASE command \in {"M", "m"} -> "m" [] command \in {"L", "l"} -> "l"
    [] command \in {"H", "h"} -> "h" [] command \in {"V", "v"} -> "v"
    [] command \in {"C", "c"} -> "c" [] command \in {"S", "s"} -> "s"
    [] command \in {"Q", "q"} -> "q" [] command \in {"T", "t"} -> "t"
    [] command \in {"A", "a"} -> "a" [] command \in {"Z", "z"} -> "z"

\* args[i]: undefined past the end, NaN in every product and difference
ArgAt(args, i) == IF i < Len(args) THEN Number(args[i + 1]) ELSE NotANumber

\* isRelative ? v * scale : (v - x) * scale + (targetWidth - w * scale) / 2
MapX(v, isRelative, box) ==
  IF isRelative THEN Times(v, Scale(box))
  ELSE Plus(Times(Minus(v, box[1]), Scale(box)),
            Over(Minus(TargetSize, Times(box[3], Scale(box))), Number(2)))

\* the vertical map without the centring term
MapYUncentred(v, isRelative, box) ==
  IF isRelative THEN Times(v, Scale(box)) ELSE Times(Minus(v, box[2]), Scale(box))

\* isRelative ? v * scale : (v - y) * scale + (targetHeight - h * scale) / 2
MapY(v, isRelative, box) ==
  IF isRelative THEN Times(v, Scale(box))
  ELSE Plus(Times(Minus(v, box[2]), Scale(box)),
            Over(Minus(TargetSize, Times(box[4], Scale(box))), Number(2)))

\* the default case: for (let i = 0; i < args.length; i += 2), two pushes each
MapPairs(args, isRelative, box) ==
  [k \in 1 .. 2 * ((Len(args) + 1) \div 2) |->
     IF k % 2 = 1 THEN MapX(ArgAt(args, k - 1), isRelative, box)
     ELSE MapY(ArgAt(args, k - 1), isRelative, box)]

\* newArgs of one command
NewArgs(command, args, box) ==
  LET isRelative == command \in LowerCase
      scale      == Scale(box)
  IN  CASE ToLowerCase(command) = "a" ->
             <<Times(ArgAt(args, 0), scale), Times(ArgAt(args, 1), scale),
               ArgAt(args, 2), ArgAt(args, 3), ArgAt(args, 4),
               MapX(ArgAt(args, 5), isRelative, box), MapY(ArgAt(args, 6), isRelative, box)>>
        [] ToLowerCase(command) = "h" -> <<MapX(ArgAt(args, 0), isRelative, box)>>
        [] ToLowerCase(command) = "v" -> <<MapY(ArgAt(args, 0), isRelative, box)>>
        [] OTHER -> MapPairs(args, isRelative, box)

\* the replacement of one command of the d attribute
TransformCommand(cmd, box) ==
  IF ToLowerCase(cmd.command) = "z" THEN [command |-> cmd.command, args |-> <<>>]
  ELSE [command |-> cmd.command, args |-> NewArgs(cmd.command, cmd.args, box)]

\* an input command as the output writes it when nothing is rewritten
Verbatim(cmd) ==
  [command |-> cmd.command, args |-> [k \in DOMAIN cmd.args |-> Number(cmd.args[k])]]

\* the clone of one element: d rewritten when present, transform removed
TransformElement(el, box) ==
  [d |-> IF el.d # NoAttribute
           THEN [k \in DOMAIN el.d |-> TransformCommand(el.d[k], box)]
           ELSE NoAttribute,
   transform |-> NoAttribute]

\* el.outerHTML of an element left as it is
OuterHTML(el) ==
  [d |-> [k \in DOMAIN el.d |-> Verbatim(el.d[k])], transform |-> el.transform]

\* transformSvgElements(elements, dimensions)
TransformSvgElements(elements, dims) ==
  IF ReturnsUnmodified(dims) THEN [k \in DOMAIN elements |-> OuterHTML(elements[k])]
  ELSE [k \in DOMAIN elements |-> TransformElement(elements[k], ViewBoxParts(dims))]

\* a part of a viewBox string that is not a number
WordPart == [digits |-> <<>>, tail |-> "auto"]

\* the dimensions processSVG returns for the modelled documents: view boxes
\* of scale 6, 2 and 1/2, a document with a size and no view box, one with
\* neither, and view boxes of three parts, with a word, with a unit, and of
\* width 0 and negative height
DimensionKinds ==
  {[width |-> 100, height |-> 50,
    viewBox |-> <<NumberPart(0), NumberPart(0), NumberPart(100), NumberPart(50)>>],
   [width |-> 200, height |-> 300,
    viewBox |-> <<NumberPart(10), NumberPart(20), NumberPart(200), NumberPart(300)>>],
   [width |-> 1200, height |-> 600,
    viewBox |-> <<NumberPart(0), NumberPart(0), NumberPart(1200), NumberPart(600)>>],
   [width |-> 200, height |-> 100, viewBox |-> NoAttribute],
   [width |-> 0, height |-> 0, viewBox |-> NoAttribute],
   [width |-> 100, height |-> 50,
    viewBox |-> <<NumberPart(0), NumberPart(0), NumberPart(100)>>],
   [width |-> 100, height |-> 50,
    viewBox |-> <<NumberPart(0), NumberPart(0), WordPart, NumberPart(50)>>],
   [width |-> 100, height |-> 50,
    viewBox |-> <<NumberPart(0), NumberPart(0), [digits |-> <<100>>, tail |-> "px"],
                  NumberPart(50)>>],
   [width |-> 100, height |-> 50,
    viewBox |-> <<NumberPart(0), NumberPart(0), NumberPart(0), NumberPart(50)>>],
   [width |-> 100, height |-> 50,
    viewBox |-> <<NumberPart(0), NumberPart(0), NumberPart(100), NumberPart(-50)>>]}

\* the commands of the modelled d attributes: a letter and the numbers that
\* follow it
CommandKinds ==
  {[command |-> "M", args |-> <<10, 10>>], [command |-> "m", args |-> <<5, 5>>],
   [command |-> "L", args |-> <<10, 10, 20, 30>>],
   [command |-> "H", args |-> <<10>>], [command |-> "H", args |-> <<10, 20>>],
   [command |-> "v", args |-> <<7>>], [command |-> "V", args |-> <<3, 4>>],
   [command |-> "A", args |-> <<5, 5, 30, 0, 1, 10, 10>>],
   [command |-> "a", args |-> <<5, 5, 30, 1, 0, 10, 10, 5, 5, 30, 0, 1, 20, 20>>],
   [command |-> "C", args |-> <<1, 2, 3, 4, 5, 6>>],
   [command |-> "Z", args |-> <<>>], [command |-> "z", args |-> <<>>]}

\* shape elements: paths with a d attribute and shapes without one, with and
\* without a transform attribute
ShapeElements ==
  [d : SeqsUpTo(CommandKinds, MaxCommands), transform : {NoAttribute, <<"rotate(45)">>}]

(***************************************************************************)
(* The files of the modelled sessions                                      *)
(***************************************************************************)
SvgMime == "image/svg+xml"

\* originalImageData: null, a canvas nothing was drawn on, no decoded pixels
NoImageData == <<>>

Shape(r, g, b) == [fill |-> Rgb(r, g, b), fillOpacity |-> 100]

\* an SVG of three black shapes, a red and a green one, and a shape without
\* fill: three groups of 3, 1 and 1 shapes at the initial tolerance
SvgSample ==
  [type |-> SvgMime,
   content |-> <<Shape(0, 0, 0), Shape(0, 0, 0), Shape(120, 0, 0),
                 [fill |-> NoFill, fillOpacity |-> 100],
                 Shape(0, 0, 0), Shape(0, 120, 0)>>]

\* a decoded bitmap: two groups of 3 and 2 pixels at the initial tolerance,
\* and one transparent pixel
RasterSample ==
  [type |-> "image/png",
   content |-> <<Pixel(10, 10, 10, 255), Pixel(12, 12, 12, 255), Pixel(200, 0, 0, 255),
                 Pixel(0, 0, 0, 0), Pixel(10, 10, 10, 255), Pixel(200, 0, 0, 255)>>]

\* a file of type image/png whose bytes are not an image: nothing is decoded
BrokenSample == [type |-> "image/png", content |-> NoImageData]

InputFiles == <<SvgSample, RasterSample, BrokenSample>>

\* the Image element fires onload for the file's data URL
Decodes(f) == InputFiles[f].content # NoImageData

\* the files that load: the SVG and the bitmap that decodes
SoundFiles == {f \in 1 .. Len(InputFiles) : InputFiles[f].type = SvgMime \/ Decodes(f)}

\* the values the tolerance slider is moved to
SliderValues == {20, 50}

(***************************************************************************)
(* State                                                                   *)
(***************************************************************************)
VARIABLES
  \* AppState (App.tsx): file is 0 for null, else a position in InputFiles
  file, tolerance, isLoading, error, colorGroups, isSvgSource, originalImageData,
  deletedGroups, reorderHistory, selectedGroupIndices, mergeHistory,
  \* the draggedItem ref: -1 for null, else a 0-based card index
  draggedItem,
  \* the debounce timeout of the tolerance/file effect is scheduled
  debounce,
  \* processRaster promises not yet resolved
  pending,
  \* the component tree is mounted (a throw while rendering unmounts it)
  mounted,
  \* the operation that produced this state, with the state it started from
  hist,
  \* layer edits that took effect since the decomposition was started, and
  \* how many of them a behaviour explores
  edits, limit,
  \* the pixels of the last PNG handed to the browser as a download
  download,
  \* one call of processSVG, statement by statement
  svgText, svgTolerance, paths, groups, pc, pos,
  \* one call of processRaster, statement by statement, and the canvas drawn
  \* from its result
  imageData, rasterTolerance, colorMap, sortedColors, clusters, rasterPc,
  rasterPos, canvas,
  \* one call of transformSvgElements
  dimensions, pathData, transformed

\* the input and its processing
sourceVars ==
  <<file, tolerance, isLoading, error, isSvgSource, originalImageData, debounce, pending>>

\* the group list, its selection and its three undo stacks
layerVars ==
  <<colorGroups, deletedGroups, reorderHistory, selectedGroupIndices, mergeHistory>>

appVars == <<sourceVars, layerVars, draggedItem, mounted, hist, edits, limit, download>>

svgVars == <<svgText, svgTolerance, paths, groups, pc, pos>>

rasterVars ==
  <<imageData, rasterTolerance, colorMap, sortedColors, clusters, rasterPc,
    rasterPos, canvas>>

pathVars == <<dimensions, pathData, transformed>>

\* the calls traced outside a session
toolVars == <<rasterVars, pathVars>>

vars == <<appVars, svgVars, toolVars>>

\* layer edits explored per decomposition: in a session on one SVG file, in
\* the longer sessions on that file, and in a session with every input and
\* every slider value
MaxEdits == 3

DeepEdits == 4

\* layer edits per decomposition in RunSpec
RunEdits == 7

SessionEdits == 1

\* the tolerance of initialState
InitialTolerance == 20

\* the five parts of the state the layer-edit operations work on
Snapshot ==
  [colorGroups |-> colorGroups, deletedGroups |-> deletedGroups,
   reorderHistory |-> reorderHistory, mergeHistory |-> mergeHistory,
   selectedGroupIndices |-> selectedGroupIndices]

\* which of the selection and the undo stacks hold something
NonEmpty ==
  [selection |-> selectedGroupIndices # <<>>, deleted |-> deletedGroups # <<>>,
   reorder |-> reorderHistory # <<>>, merge |-> mergeHistory # <<>>]

\* no delete is waiting to be undone in the current run of deletes
NoRun == [starts |-> <<>>, undone |-> 0, target |-> <<>>]

NoHist ==
  [op |-> "init", arg |-> -1, outcome |-> "ok", pre |-> <<>>,
   had |-> [selection |-> FALSE, deleted |-> FALSE, reorder |-> FALSE, merge |-> FALSE],
   prevOp |-> "other", before |-> <<>>, run |-> NoRun]

\* what the history keeps of the state an operation started from: the whole
\* Snapshot for a call that returned early or threw, the list and the stacks
\* for a delete, a reorder and an undoDelete, the list, the merge stack and
\* the selection for a merge, nothing for the rest
PreState(op, outcome) ==
  IF outcome # "ok" THEN Snapshot
  ELSE IF op \in {"delete", "reorder", "undoDelete"}
    THEN [colorGroups |-> colorGroups, deletedGroups |-> deletedGroups,
          reorderHistory |-> reorderHistory, mergeHistory |-> mergeHistory]
  ELSE IF op = "merge"
    THEN [colorGroups |-> colorGroups, mergeHistory |-> mergeHistory,
          selectedGroupIndices |-> selectedGroupIndices]
  ELSE <<>>

\* the deletes of the current run that no undoDelete has answered yet.
\*   starts   for each of them, oldest first, the list and the depth of the
\*            delete-undo stack it started from
\*   undone   how many undoDeletes have answered deletes of the run
\*   target   what the last of them answered: the start of its delete
\* A delete after an undoDelete begins a new run, and so does a delete after
\* anything that is not a delete, a select or a call that returned early or
\* threw; those last three keep the run as it is.
Run(op, outcome) ==
  LET run == hist.run
  IN  IF outcome # "ok" \/ op = "select" THEN run
      ELSE IF op = "delete"
        THEN [starts |-> Append(IF run.undone > 0 THEN <<>> ELSE run.starts,
                                [colorGroups |-> colorGroups,
                                 depth |-> Len(deletedGroups)]),
              undone |-> 0, target |-> <<>>]
      ELSE IF op = "undoDelete" /\ run.starts # <<>>
        THEN [starts |-> Front(run.starts), undone |-> run.undone + 1,
              target |-> Last(run.starts)]
      ELSE NoRun

\* the history entry of an operation started in the current state.
\*   outcome  "ok" (ran to its setState), "noop" (returned early) or "threw"
\*   pre      PreState of the operation
\*   had      which of the selection and the stacks were non-empty before
\*            (not kept for a select)
\*   prevOp, before   the operation just before this one and its pre, when
\*            that was a delete, a reorder or a merge that took effect
\*            ("other", <<>> otherwise)
\*   run      the run of deletes and undoDeletes the operation belongs to
Record(op, arg, outcome) ==
  LET undoable == hist.op \in {"delete", "reorder", "merge"} /\ hist.outcome = "ok"
  IN  [op |-> op, arg |-> arg, outcome |-> outcome,
       pre |-> PreState(op, outcome),
       had |-> IF op = "select" THEN NoHist.had ELSE NonEmpty,
       prevOp |-> IF undoable THEN hist.op ELSE "other",
       before |-> IF undoable THEN hist.pre ELSE <<>>,
       run |-> Run(op, outcome)]

\* initialState, with the effect of the first render scheduled
InitialState ==
  /\ file = 0
  /\ tolerance = InitialTolerance
  /\ isLoading = FALSE
  /\ error = FALSE
  /\ colorGroups = <<>>
  /\ isSvgSource = FALSE
  /\ originalImageData = NoImageData
  /\ deletedGroups = <<>>
  /\ reorderHistory = <<>>
  /\ selectedGroupIndices = <<>>
  /\ mergeHistory = <<>>
  /\ draggedItem = -1
  /\ debounce = TRUE
  /\ pending = {}
  /\ mounted = TRUE
  /\ hist = NoHist
  /\ edits = 0
  /\ download = NoImageData

AppInit == InitialState /\ limit = MaxEdits

\* no call of processSVG is being traced
SvgIdle ==
  /\ svgText = <<>>
  /\ svgTolerance = 0
  /\ paths = <<>>
  /\ groups = <<>>
  /\ pc = "idle"
  /\ pos = 0

\* no call of processRaster is being traced
RasterIdle ==
  /\ imageData = <<>>
  /\ rasterTolerance = 0
  /\ colorMap = <<>>
  /\ sortedColors = <<>>
  /\ clusters = <<>>
  /\ rasterPc = "idle"
  /\ rasterPos = 0
  /\ canvas = NoImageData

\* no call of transformSvgElements is being traced
PathIdle ==
  /\ dimensions = NoDimensions
  /\ pathData = <<>>
  /\ transformed = <<>>

ToolsIdle == RasterIdle /\ PathIdle

(***************************************************************************)
(* processSVG, statement by statement, on every document and tolerance     *)
(***************************************************************************)
ClusterInit ==
  /\ AppInit
  /\ svgText \in SvgDocuments
  /\ svgTolerance \in Tolerances
  /\ paths = <<>>
  /\ groups = <<>>
  /\ pc = "collect"
  /\ pos = 1
  /\ ToolsIdle

\* elements.forEach(el => ...), one element
ForEachElement ==
  /\ pc = "collect"
  /\ pos <= Len(svgText)
  /\ paths' = CollectElement(paths, svgText[pos], pos)
  /\ pos' = pos + 1
  /\ UNCHANGED <<svgText, svgTolerance, groups, pc, appVars, toolVars>>

\* the element loop is over; the grouping loop starts with no group
StartGrouping ==
  /\ pc = "collect"
  /\ pos > Len(svgText)
  /\ pc' = "cluster"
  /\ pos' = 1
  /\ UNCHANGED <<svgText, svgTolerance, paths, groups, appVars, toolVars>>

\* paths.forEach(path => ...), one path
ForEachPath ==
  /\ pc = "cluster"
  /\ pos <= Len(paths)
  /\ groups' = PlacePath(groups, paths[pos], svgTolerance)
  /\ pos' = pos + 1
  /\ UNCHANGED <<svgText, svgTolerance, paths, pc, appVars, toolVars>>

\* return { groups, dimensions }
ReturnGroups ==
  /\ pc = "cluster"
  /\ pos > Len(paths)
  /\ pc' = "done"
  /\ UNCHANGED <<svgText, svgTolerance, paths, groups, pos, appVars, toolVars>>

ClusterNext == ForEachElement \/ StartGrouping \/ ForEachPath \/ ReturnGroups

ClusterSpec == ClusterInit /\ [][ClusterNext]_vars

(***************************************************************************)
(* processRaster, statement by statement, on every bitmap and tolerance,   *)
(* then one canvas drawn from its groups                                   *)
(***************************************************************************)
RasterInit ==
  /\ InitialState
  /\ limit = 0
  /\ SvgIdle
  /\ PathIdle
  /\ imageData \in Bitmaps
  /\ rasterTolerance \in RasterTolerances
  /\ colorMap = <<>>
  /\ sortedColors = <<>>
  /\ clusters = <<>>
  /\ rasterPc = "sample"
  /\ rasterPos = 1
  /\ canvas = NoImageData

\* the sampling loop, one pixel
SamplePixel ==
  /\ rasterPc = "sample"
  /\ rasterPos <= Len(imageData)
  /\ colorMap' = CountPixel(colorMap, imageData[rasterPos])
  /\ rasterPos' = rasterPos + SampleRate(Len(imageData))
  /\ UNCHANGED <<imageData, rasterTolerance, sortedColors, clusters, rasterPc, canvas,
                 appVars, svgVars, pathVars>>

\* Object.values(colorMap).sort((a, b) => b.count - a.count)
SortColors ==
  /\ rasterPc = "sample"
  /\ rasterPos > Len(imageData)
  /\ sortedColors' = SortDesc(<<>>, colorMap, "count")
  /\ rasterPc' = "cluster"
  /\ rasterPos' = 1
  /\ UNCHANGED <<imageData, rasterTolerance, colorMap, clusters, canvas,
                 appVars, svgVars, pathVars>>

\* sortedColors.forEach(colorData => ...), one colour
ForEachColor ==
  /\ rasterPc = "cluster"
  /\ rasterPos <= Len(sortedColors)
  /\ clusters' = PlaceColor(clusters, sortedColors[rasterPos], rasterTolerance)
  /\ rasterPos' = rasterPos + 1
  /\ UNCHANGED <<imageData, rasterTolerance, colorMap, sortedColors, rasterPc, canvas,
                 appVars, svgVars, pathVars>>

\* groups.sort((a, b) => b.totalCount - a.totalCount); resolve(...)
SortGroups ==
  /\ rasterPc = "cluster"
  /\ rasterPos > Len(sortedColors)
  /\ clusters' = SortDesc(<<>>, clusters, "totalCount")
  /\ rasterPc' = "done"
  /\ UNCHANGED <<imageData, rasterTolerance, colorMap, sortedColors, rasterPos, canvas,
                 appVars, svgVars, pathVars>>

\* the preview effect draws the groups at the slider's tolerance
DrawPreview(tol) ==
  /\ rasterPc = "done"
  /\ imageData # NoImageData
  /\ canvas' = [drawn |-> "preview", index |-> -1, tolerance |-> tol,
                pixels |-> PreviewImage(clusters, imageData, tol)]
  /\ rasterPc' = "drawn"
  /\ UNCHANGED <<imageData, rasterTolerance, colorMap, sortedColors, clusters, rasterPos,
                 appVars, svgVars, pathVars>>

\* downloadPng of the card at index, at the slider's tolerance
DrawExport(index, tol) ==
  /\ rasterPc = "done"
  /\ imageData # NoImageData
  /\ index \in Indices(clusters)
  /\ canvas' = [drawn |-> "export", index |-> index, tolerance |-> tol,
                pixels |-> ExportImage(clusters, index, imageData, tol)]
  /\ rasterPc' = "drawn"
  /\ UNCHANGED <<imageData, rasterTolerance, colorMap, sortedColors, clusters, rasterPos,
                 appVars, svgVars, pathVars>>

RasterNext ==
  \/ SamplePixel
  \/ SortColors
  \/ ForEachColor
  \/ SortGroups
  \/ \E tol \in RasterTolerances : DrawPreview(tol)
  \/ \E i \in Indices(clusters) : \E tol \in RasterTolerances : DrawExport(i, tol)

RasterSpec == RasterInit /\ [][RasterNext]_vars

(***************************************************************************)
(* transformSvgElements on one element, for every modelled element and     *)
(* dimensions                                                              *)
(***************************************************************************)
PathInit ==
  /\ InitialState
  /\ limit = 0
  /\ SvgIdle
  /\ RasterIdle
  /\ dimensions \in DimensionKinds
  /\ pathData \in {<<el>> : el \in ShapeElements}
  /\ transformed = <<>>

\* the call made by downloadSvg, downloadPng and the preview
CallTransformSvgElements ==
  /\ transformed = <<>>
  /\ transformed' = TransformSvgElements(pathData, dimensions)
  /\ UNCHANGED <<dimensions, pathData, appVars, svgVars, rasterVars>>

PathNext == CallTransformSvgElements

PathSpec == PathInit /\ [][PathNext]_vars

(***************************************************************************)
(* The session: App (App.tsx)                                              *)
(*                                                                         *)
(* Every handler runs to completion on the state of the last render, so a  *)
(* handler is one action.  The card handlers (select, delete, drag, drop)  *)
(* are called with the index of a rendered card; the handlers behind the   *)
(* merge and undo buttons check their own preconditions and are modelled   *)
(* as callable in every state.                                             *)
(***************************************************************************)
\* a read past the end of an array
Undefined == [undefined |-> TRUE]

\* a sum or difference with an undefined operand
NaN == -1

IsSvgGroup(g) == "elements" \in DOMAIN g

IsRasterGroup(g) == "totalCount" \in DOMAIN g

\* colorGroups[i] as JavaScript reads it
GroupAt(list, i) == IF i \in Indices(list) THEN At(list, i) ELSE Undefined

\* the effect dependencies [tolerance, file, fileContent] changed: the old
\* timeout is cleared and a new one scheduled
Rescheduled(newTolerance, newFile) ==
  IF newTolerance # tolerance \/ newFile # file THEN TRUE ELSE debounce

\* colorGroups: [], deletedGroups: [], reorderHistory: [],
\* selectedGroupIndices: [], mergeHistory: []
ClearLayers ==
  /\ colorGroups' = <<>>
  /\ deletedGroups' = <<>>
  /\ reorderHistory' = <<>>
  /\ selectedGroupIndices' = <<>>
  /\ mergeHistory' = <<>>

\* handleFileUpload, from the call to the reader's onload: the upload area is
\* rendered only while no file is set
HandleFileUpload(f) ==
  /\ mounted
  /\ file = 0 /\ ~error /\ ~isLoading
  /\ file' = f
  /\ isSvgSource' = (InputFiles[f].type = SvgMime)
  /\ originalImageData' = NoImageData
  /\ isLoading' = FALSE
  /\ error' = FALSE
  /\ ClearLayers
  /\ debounce' = Rescheduled(tolerance, f)
  /\ hist' = Record("upload", f, "ok")
  /\ edits' = 0
  /\ UNCHANGED <<tolerance, draggedItem, pending, mounted, limit, download,
                 svgVars, toolVars>>

\* resetState ("Start Over", "Try again")
ResetState ==
  /\ mounted
  /\ file # 0 \/ error
  /\ file' = 0
  /\ tolerance' = InitialTolerance
  /\ isSvgSource' = FALSE
  /\ originalImageData' = NoImageData
  /\ isLoading' = FALSE
  /\ error' = FALSE
  /\ ClearLayers
  /\ debounce' = Rescheduled(InitialTolerance, 0)
  /\ hist' = Record("reset", -1, "ok")
  /\ edits' = 0
  /\ UNCHANGED <<draggedItem, pending, mounted, limit, download,
                 svgVars, toolVars>>

\* handleToleranceChange: the slider is disabled while loading
HandleToleranceChange(value) ==
  /\ mounted
  /\ file # 0 /\ ~error /\ ~isLoading
  /\ value # tolerance
  /\ tolerance' = value
  /\ debounce' = TRUE
  /\ hist' = Record("tolerance", value, "ok")
  /\ UNCHANGED <<file, isLoading, error, isSvgSource, originalImageData, pending, layerVars,
                 draggedItem, mounted, edits, limit, download,
                 svgVars, toolVars>>

\* the debounce timeout fires with no file set: processImage is not called
TimerWithoutFile ==
  /\ mounted
  /\ debounce
  /\ file = 0
  /\ debounce' = FALSE
  /\ UNCHANGED <<file, tolerance, isLoading, error, isSvgSource, originalImageData, pending,
                 layerVars, draggedItem, mounted, hist, edits, limit, download,
                 svgVars, toolVars>>

\* the timeout fires on an SVG file: processImage clears the decomposition
\* and installs the groups of processSVG in the same turn
ProcessImageSvg ==
  /\ mounted
  /\ debounce
  /\ file # 0
  /\ InputFiles[file].type = SvgMime
  /\ debounce' = FALSE
  /\ colorGroups' = ProcessSVG(InputFiles[file].content, tolerance)
  /\ deletedGroups' = <<>>
  /\ reorderHistory' = <<>>
  /\ selectedGroupIndices' = <<>>
  /\ mergeHistory' = <<>>
  /\ isSvgSource' = TRUE
  /\ originalImageData' = NoImageData
  /\ isLoading' = FALSE
  /\ error' = FALSE
  /\ hist' = Record("processImage", file, "ok")
  /\ edits' = 0
  /\ UNCHANGED <<file, tolerance, draggedItem, pending, mounted, limit, download,
                 svgVars, toolVars>>

\* the timeout fires on a bitmap: processImage clears the decomposition, sets
\* isLoading and awaits processRaster
ProcessImageRaster ==
  /\ mounted
  /\ debounce
  /\ file # 0
  /\ InputFiles[file].type # SvgMime
  /\ debounce' = FALSE
  /\ ClearLayers
  /\ isLoading' = TRUE
  /\ error' = FALSE
  /\ pending' = pending \cup {[file |-> file, tolerance |-> tolerance]}
  /\ hist' = Record("processImage", file, "ok")
  /\ edits' = 0
  /\ UNCHANGED <<file, tolerance, isSvgSource, originalImageData, draggedItem, mounted,
                 limit, download,
                 svgVars, toolVars>>

\* img.onload of a pending processRaster: the promise resolves and
\* processImage installs its groups
RasterLoaded(job) ==
  /\ mounted
  /\ job \in pending
  /\ Decodes(job.file)
  /\ pending' = pending \ {job}
  /\ colorGroups' = ProcessRaster(InputFiles[job.file].content, job.tolerance)
  /\ isSvgSource' = FALSE
  /\ originalImageData' = InputFiles[job.file].content
  /\ isLoading' = FALSE
  /\ hist' = Record("rasterLoaded", job.file, "ok")
  /\ UNCHANGED <<file, tolerance, error, debounce, deletedGroups, reorderHistory,
                 selectedGroupIndices, mergeHistory, draggedItem, mounted, edits,
                 limit, download,
                 svgVars, toolVars>>

\* the new selection of handleSelectGroup
ToggleIndex(selection, indexToToggle) ==
  LET hits == {k \in 1 .. Len(selection) : selection[k] = indexToToggle}
  IN  IF hits # {} THEN RemoveAt(selection, SetMin(hits) - 1)
      ELSE Append(selection, indexToToggle)

\* handleSelectGroup
HandleSelectGroup(indexToToggle) ==
  /\ mounted
  /\ indexToToggle \in Indices(colorGroups)
  /\ selectedGroupIndices' = ToggleIndex(selectedGroupIndices, indexToToggle)
  /\ hist' = Record("select", -1, "ok")
  /\ UNCHANGED <<sourceVars, colorGroups, deletedGroups, reorderHistory,
                 mergeHistory, draggedItem, mounted, edits, limit, download,
                 svgVars, toolVars>>

\* handleDeleteGroup that keeps the selection
HandleDeleteGroupKeepingSelection(indexToDelete) ==
  /\ mounted
  /\ indexToDelete \in Indices(colorGroups)
  /\ edits < limit
  /\ colorGroups' = RemoveAt(colorGroups, indexToDelete)
  /\ deletedGroups' = Append(deletedGroups, [group |-> At(colorGroups, indexToDelete),
                                             originalIndex |-> indexToDelete])
  /\ hist' = Record("delete", indexToDelete, "ok")
  /\ edits' = edits + 1
  /\ UNCHANGED <<sourceVars, reorderHistory, selectedGroupIndices, mergeHistory,
                 draggedItem, mounted, limit, download,
                 svgVars, toolVars>>

\* handleDeleteGroup
HandleDeleteGroup(indexToDelete) ==
  /\ mounted
  /\ indexToDelete \in Indices(colorGroups)
  /\ edits < limit
  /\ colorGroups' = RemoveAt(colorGroups, indexToDelete)
  /\ deletedGroups' = Append(deletedGroups, [group |-> At(colorGroups, indexToDelete),
                                             originalIndex |-> indexToDelete])
  /\ selectedGroupIndices' = <<>>
  /\ hist' = Record("delete", indexToDelete, "ok")
  /\ edits' = edits + 1
  /\ UNCHANGED <<sourceVars, reorderHistory, mergeHistory, draggedItem, mounted,
                 limit, download,
                 svgVars, toolVars>>

\* splice at the front of the list instead of the clamped original index
InsertAtFront(lastDeleted, list) == 0

\* splice at the end of the list instead of the clamped original index
InsertAtEnd(lastDeleted, list) == Len(list)

\* Math.min(lastDeleted.originalIndex, newColorGroups.length)
InsertAtIndex(lastDeleted, list) == Min2(lastDeleted.originalIndex, Len(list))

\* handleUndoDelete that takes the oldest entry of the stack (shift for pop)
HandleUndoDeleteOldest ==
  /\ mounted
  /\ IF Len(deletedGroups) = 0
       THEN /\ hist' = Record("undoDelete", -1, "noop")
            /\ UNCHANGED <<colorGroups, deletedGroups, edits>>
       ELSE LET firstDeleted == Head(deletedGroups)
                insertAt     == InsertAtIndex(firstDeleted, colorGroups)
            IN  /\ edits < limit
                /\ colorGroups' = InsertAt(colorGroups, insertAt, firstDeleted.group)
                /\ deletedGroups' = Tail(deletedGroups)
                /\ hist' = Record("undoDelete", insertAt, "ok")
                /\ edits' = edits + 1
  /\ UNCHANGED <<sourceVars, reorderHistory, selectedGroupIndices, mergeHistory,
                 draggedItem, mounted, limit, download,
                 svgVars, toolVars>>

\* handleUndoDelete
HandleUndoDelete ==
  /\ mounted
  /\ IF Len(deletedGroups) = 0
       THEN /\ hist' = Record("undoDelete", -1, "noop")
            /\ UNCHANGED <<colorGroups, deletedGroups, edits>>
       ELSE LET lastDeleted == Last(deletedGroups)
                insertAt    == InsertAtIndex(lastDeleted, colorGroups)
            IN  /\ edits < limit
                /\ colorGroups' = InsertAt(colorGroups, insertAt, lastDeleted.group)
                /\ deletedGroups' = Front(deletedGroups)
                /\ hist' = Record("undoDelete", insertAt, "ok")
                /\ edits' = edits + 1
  /\ UNCHANGED <<sourceVars, reorderHistory, selectedGroupIndices, mergeHistory,
                 draggedItem, mounted, limit, download,
                 svgVars, toolVars>>

\* handleUndoReorder that also forgets the deleted groups
HandleUndoReorderClearingDeleted ==
  /\ mounted
  /\ IF Len(reorderHistory) = 0
       THEN /\ hist' = Record("undoReorder", -1, "noop")
            /\ UNCHANGED <<colorGroups, reorderHistory, deletedGroups, edits>>
       ELSE /\ edits < limit
            /\ colorGroups' = Last(reorderHistory)
            /\ reorderHistory' = Front(reorderHistory)
            /\ deletedGroups' = <<>>
            /\ hist' = Record("undoReorder", -1, "ok")
            /\ edits' = edits + 1
  /\ UNCHANGED <<sourceVars, selectedGroupIndices, mergeHistory, draggedItem,
                 mounted, limit, download,
                 svgVars, toolVars>>

\* handleUndoReorder
HandleUndoReorder ==
  /\ mounted
  /\ IF Len(reorderHistory) = 0
       THEN /\ hist' = Record("undoReorder", -1, "noop")
            /\ UNCHANGED <<colorGroups, reorderHistory, edits>>
       ELSE /\ edits < limit
            /\ colorGroups' = Last(reorderHistory)
            /\ reorderHistory' = Front(reorderHistory)
            /\ hist' = Record("undoReorder", -1, "ok")
            /\ edits' = edits + 1
  /\ UNCHANGED <<sourceVars, deletedGroups, selectedGroupIndices, mergeHistory,
                 draggedItem, mounted, limit, download,
                 svgVars, toolVars>>

\* handleUndoMerge that goes back to the oldest snapshot of the stack
HandleUndoMergeOldest ==
  /\ mounted
  /\ IF Len(mergeHistory) = 0
       THEN /\ hist' = Record("undoMerge", -1, "noop")
            /\ UNCHANGED <<colorGroups, mergeHistory, edits>>
       ELSE /\ edits < limit
            /\ colorGroups' = Head(mergeHistory)
            /\ mergeHistory' = Front(mergeHistory)
            /\ hist' = Record("undoMerge", -1, "ok")
            /\ edits' = edits + 1
  /\ UNCHANGED <<sourceVars, deletedGroups, reorderHistory, selectedGroupIndices,
                 draggedItem, mounted, limit, download,
                 svgVars, toolVars>>

\* handleUndoMerge
HandleUndoMerge ==
  /\ mounted
  /\ IF Len(mergeHistory) = 0
       THEN /\ hist' = Record("undoMerge", -1, "noop")
            /\ UNCHANGED <<colorGroups, mergeHistory, edits>>
       ELSE /\ edits < limit
            /\ colorGroups' = Last(mergeHistory)
            /\ mergeHistory' = Front(mergeHistory)
            /\ hist' = Record("undoMerge", -1, "ok")
            /\ edits' = edits + 1
  /\ UNCHANGED <<sourceVars, deletedGroups, reorderHistory, selectedGroupIndices,
                 draggedItem, mounted, limit, download,
                 svgVars, toolVars>>

\* handleDragStart: only the ref changes
HandleDragStart(index) ==
  /\ mounted
  /\ index \in Indices(colorGroups)
  /\ draggedItem # index
  /\ draggedItem' = index
  /\ UNCHANGED <<sourceVars, layerVars, mounted, hist, edits, limit, download,
                 svgVars, toolVars>>

\* the list handleDrop builds: splice(draggedItem, 1) then
\* splice(dropIndex, 0, draggedGroup); past the end nothing is removed and
\* draggedGroup is undefined
MoveGroup(list, from, dropIndex) ==
  IF from \in Indices(list)
    THEN InsertAt(RemoveAt(list, from), dropIndex, At(list, from))
    ELSE InsertAt(list, dropIndex, Undefined)

\* draggedItem.current as the updater of handleDrop reads it: the dragged
\* index when React runs the updater inside the setState call, null when it
\* runs the updater in the next render, after draggedItem.current = null
\* (splice(null, 1) removes the entry at index 0)
UpdaterReads == {draggedItem, 0}

\* handleDrop on the card at dropIndex. The drop need not end a drag that
\* began on a card, so draggedItem may be null or left from an earlier drag.
\* A list with an undefined entry throws in the next render (the cards read
\* group.representativeColor), which unmounts the tree.
HandleDrop(dropIndex) ==
  /\ mounted
  /\ dropIndex \in Indices(colorGroups)
  /\ IF draggedItem = -1 \/ draggedItem = dropIndex
       THEN /\ hist' = Record("reorder", -1, "noop")
            /\ UNCHANGED <<colorGroups, reorderHistory, selectedGroupIndices,
                           draggedItem, mounted, edits>>
       ELSE /\ edits < limit
            /\ \E from \in UpdaterReads :
                 /\ colorGroups' = MoveGroup(colorGroups, from, dropIndex)
                 /\ mounted' = (from \in Indices(colorGroups))
            /\ reorderHistory' = Append(reorderHistory, colorGroups)
            /\ selectedGroupIndices' = <<>>
            /\ draggedItem' = -1
            /\ hist' = Record("reorder", dropIndex, "ok")
            /\ edits' = edits + 1
  /\ UNCHANGED <<sourceVars, deletedGroups, mergeHistory, limit, download,
                 svgVars, toolVars>>

\* fewer than one selected index in place of fewer than two
NothingSelected(selection) == Len(selection) < 1

\* if (selectedGroupIndices.length < 2) return
TooFewSelected(selection) == Len(selection) < 2

\* list.filter((_, index) => !indicesToRemove.has(index))
WithoutIndices(list, indicesToRemove) ==
  LET keep == {i \in Indices(list) : i \notin indicesToRemove}
  IN  [k \in 1 .. Cardinality(keep) |->
         At(list, CHOOSE i \in keep : Cardinality({j \in keep : j < i}) = k - 1)]

\* the sort key of the primary group: elements.length, or totalCount
MergeKey(g, svgMode) ==
  IF svgMode THEN Len(g.elements)
  ELSE IF IsRasterGroup(g) THEN g.totalCount ELSE NaN

\* the positions (in selection order) sort(...)[0] can come from. The sort is
\* stable, so with comparable keys it is the first position holding the
\* largest key; when every difference is NaN the order is kept; when only
\* some are NaN the comparator is inconsistent and the order is
\* implementation-defined.
PrimaryPositions(groupsToMerge, svgMode) ==
  LET n    == Len(groupsToMerge)
      keys == [k \in 1 .. n |-> MergeKey(groupsToMerge[k], svgMode)]
      nans == {k \in 1 .. n : keys[k] = NaN}
  IN  IF nans = {}
        THEN {k \in 1 .. n : /\ \A j \in 1 .. n : keys[j] <= keys[k]
                             /\ \A j \in 1 .. k - 1 : keys[j] < keys[k]}
        ELSE IF nans = 1 .. n THEN {1} ELSE 1 .. n

\* g.memberColors as flatMap sees it
MemberColorsOf(g) == IF IsRasterGroup(g) THEN g.memberColors ELSE <<Undefined>>

RECURSIVE SumTotalCount(_)
\* rasterGroups.reduce((sum, g) => sum + g.totalCount, 0)
SumTotalCount(rasterGroups) ==
  IF rasterGroups = <<>> THEN 0
  ELSE LET rest == SumTotalCount(Tail(rasterGroups))
       IN  IF rest = NaN \/ ~IsRasterGroup(Head(rasterGroups)) THEN NaN
           ELSE Head(rasterGroups).totalCount + rest

\* newMergedGroup, with the primary group at position p of groupsToMerge
MergedGroup(groupsToMerge, p, svgMode) ==
  IF svgMode
    THEN [representativeColor |-> groupsToMerge[p].representativeColor,
          elements |-> FlatMap([k \in 1 .. Len(groupsToMerge) |-> groupsToMerge[k].elements])]
    ELSE [representativeColor |-> groupsToMerge[p].representativeColor,
          memberColors |->
            FlatMap([k \in 1 .. Len(groupsToMerge) |-> MemberColorsOf(groupsToMerge[k])]),
          totalCount |-> SumTotalCount(groupsToMerge)]

\* the merge reads a property of undefined: an index past the end of the
\* list, or (SVG) a group without elements
MergeThrows(groupsToMerge, svgMode) ==
  \E k \in 1 .. Len(groupsToMerge) :
    \/ groupsToMerge[k] = Undefined
    \/ svgMode /\ ~IsSvgGroup(groupsToMerge[k])

\* the deleted groups are kept across a merge
KeptOnMerge(stack) == stack

\* deletedGroups: [] and reorderHistory: [] in the setState of a merge
ClearedOnMerge(stack) == <<>>

\* handleMergeGroups
HandleMergeGroups ==
  /\ mounted
  /\ LET groupsToMerge ==
           [k \in 1 .. Len(selectedGroupIndices) |->
              GroupAt(colorGroups, selectedGroupIndices[k])]
     IN  IF TooFewSelected(selectedGroupIndices)
           THEN /\ hist' = Record("merge", -1, "noop")
                /\ UNCHANGED <<layerVars, edits>>
         ELSE IF MergeThrows(groupsToMerge, isSvgSource)
           THEN /\ hist' = Record("merge", -1, "threw")
                /\ UNCHANGED <<layerVars, edits>>
         ELSE /\ edits < limit
              /\ \E p \in PrimaryPositions(groupsToMerge, isSvgSource) :
                   LET newMergedGroup  == MergedGroup(groupsToMerge, p, isSvgSource)
                       indicesToRemove == Range(selectedGroupIndices)
                       newColorGroups  == WithoutIndices(colorGroups, indicesToRemove)
                       insertAtIndex   == SetMin(indicesToRemove)
                   IN  colorGroups' =
                         InsertAt(newColorGroups,
                                  Min2(insertAtIndex, Len(newColorGroups)), newMergedGroup)
              /\ mergeHistory' = Append(mergeHistory, colorGroups)
              /\ selectedGroupIndices' = <<>>
              /\ deletedGroups' = ClearedOnMerge(deletedGroups)
              /\ reorderHistory' = ClearedOnMerge(reorderHistory)
              /\ hist' = Record("merge", SetMin(Range(selectedGroupIndices)), "ok")
              /\ edits' = edits + 1
  /\ UNCHANGED <<sourceVars, draggedItem, mounted, limit, download,
                 svgVars, toolVars>>

\* downloadPng of the card at index: the raster branch fills the canvas from
\* originalImageData; the SVG branch draws the group's shapes
HandleDownloadPng(index) ==
  /\ mounted
  /\ index \in Indices(colorGroups)
  /\ isSvgSource \/ originalImageData # NoImageData
  /\ download' =
       IF isSvgSource
         THEN [drawn |-> "svg", index |-> index, pixels |-> <<>>]
         ELSE [drawn |-> "export", index |-> index,
               pixels |-> ExportImage(colorGroups, index, originalImageData, tolerance)]
  /\ hist' = Record("download", index, "ok")
  /\ UNCHANGED <<sourceVars, layerVars, draggedItem, mounted, edits, limit,
                 svgVars, toolVars>>

Init == InitialState /\ limit = SessionEdits /\ SvgIdle /\ ToolsIdle

\* a session on the files that load
Next ==
  \/ \E f \in SoundFiles : HandleFileUpload(f)
  \/ ResetState
  \/ \E value \in SliderValues : HandleToleranceChange(value)
  \/ TimerWithoutFile
  \/ ProcessImageSvg
  \/ ProcessImageRaster
  \/ \E job \in pending : RasterLoaded(job)
  \/ \E i \in Indices(colorGroups) : HandleSelectGroup(i)
  \/ \E i \in Indices(colorGroups) : HandleDeleteGroup(i)
  \/ HandleUndoDelete
  \/ HandleUndoReorder
  \/ \E i \in Indices(colorGroups) : HandleDragStart(i)
  \/ \E i \in Indices(colorGroups) : HandleDrop(i)
  \/ HandleMergeGroups
  \/ HandleUndoMerge

Spec == Init /\ [][Next]_vars

\* a session on the SVG sample at the initial tolerance
LayerInit == AppInit /\ SvgIdle /\ ToolsIdle

LayerNext ==
  \/ HandleFileUpload(1)
  \/ ResetState
  \/ TimerWithoutFile
  \/ ProcessImageSvg
  \/ \E i \in Indices(colorGroups) : HandleSelectGroup(i)
  \/ \E i \in Indices(colorGroups) : HandleDeleteGroup(i)
  \/ HandleUndoDelete
  \/ HandleUndoReorder
  \/ \E i \in Indices(colorGroups) : HandleDragStart(i)
  \/ \E i \in Indices(colorGroups) : HandleDrop(i)
  \/ HandleMergeGroups
  \/ HandleUndoMerge

LayerSpec == LayerInit /\ [][LayerNext]_vars

\* the same session, one layer edit longer
DeepInit == InitialState /\ limit = DeepEdits /\ SvgIdle /\ ToolsIdle

DeepSpec == DeepInit /\ [][LayerNext]_vars

\* runs of deletes and undoDeletes, long enough to delete a whole list and
\* bring it back, on the decomposed list or on what one reorder, the first
\* edit, made of it
RunInit == InitialState /\ limit = RunEdits /\ SvgIdle /\ ToolsIdle

RunNext ==
  \/ HandleFileUpload(1)
  \/ ResetState
  \/ TimerWithoutFile
  \/ ProcessImageSvg
  \/ \E i \in Indices(colorGroups) : HandleDeleteGroup(i)
  \/ HandleUndoDelete
  \/ \E i \in Indices(colorGroups) : edits = 0 /\ HandleDragStart(i)
  \/ \E i \in Indices(colorGroups) : edits = 0 /\ HandleDrop(i)

RunSpec == RunInit /\ [][RunNext]_vars

\* the life cycle alone, on every file, the one that does not decode
\* included: uploads, Start Over, the slider, the debounce timer and the
\* image's load event
LiveInit == InitialState /\ limit = 0 /\ SvgIdle /\ ToolsIdle

LiveNext ==
  \/ \E f \in 1 .. Len(InputFiles) : HandleFileUpload(f)
  \/ ResetState
  \/ \E value \in SliderValues : HandleToleranceChange(value)
  \/ TimerWithoutFile
  \/ ProcessImageSvg
  \/ ProcessImageRaster
  \/ \E job \in pending : RasterLoaded(job)

\* the timeout set by the debounce effect fires: the step of TimerWithoutFile,
\* ProcessImageSvg or ProcessImageRaster
TimerFires == debounce /\ debounce' = FALSE

\* img.onload of a pending image that decodes fires: the step of RasterLoaded
ImageLoads == \E job \in pending : Decodes(job.file) /\ pending' = pending \ {job}

\* a timeout that is set fires and an image that decodes loads; the user's
\* actions are under no obligation
LiveSpec ==
  /\ LiveInit
  /\ [][LiveNext]_vars
  /\ WF_debounce(TimerFires)
  /\ WF_pending(ImageLoads)

\* a session on the bitmap sample, with the layer edits and the PNG export
ExportInit == InitialState /\ limit = DeepEdits /\ SvgIdle /\ ToolsIdle

ExportNext ==
  \/ HandleFileUpload(2)
  \/ ResetState
  \/ TimerWithoutFile
  \/ ProcessImageRaster
  \/ \E job \in pending : RasterLoaded(job)
  \/ \E i \in Indices(colorGroups) : HandleSelectGroup(i)
  \/ \E i \in Indices(colorGroups) : HandleDeleteGroup(i)
  \/ HandleUndoDelete
  \/ HandleUndoReorder
  \/ \E i \in Indices(colorGroups) : HandleDragStart(i)
  \/ \E i \in Indices(colorGroups) : HandleDrop(i)
  \/ HandleMergeGroups
  \/ HandleUndoMerge
  \/ \E i \in Indices(colorGroups) : HandleDownloadPng(i)

ExportSpec == ExportInit /\ [][ExportNext]_vars

(***************************************************************************)
(* Claims about processSVG (checked under ClusterSpec)                     *)
(***************************************************************************)
\* the element has a resolved fill and a fill opacity above 0
Visible(el) == el.fill # NoFill /\ el.fillOpacity > 0

\* the colour a visible element is ingested with
IngestedColor(el) == IF el.fill = White THEN OffWhite ELSE el.fill

VisibleIds == {id \in 1 .. Len(svgText) : Visible(svgText[id])}

\* the places (group, position) at which element id occurs in a group list
Places(groupList, id) ==
  {p \in (1 .. Len(groupList)) \X (1 .. MaxShapes + 1) :
     /\ p[2] <= Len(groupList[p[1]].elements)
     /\ groupList[p[1]].elements[p[2]] = id}

RECURSIVE TotalShapes(_)
TotalShapes(groupList) ==
  IF groupList = <<>> THEN 0
  ELSE Len(Head(groupList).elements) + TotalShapes(Tail(groupList))

LargestGroupSize(groupList) ==
  IF groupList = <<>> THEN 0
  ELSE SetMax({Len(groupList[g].elements) : g \in 1 .. Len(groupList)})

FirstGroupShapes(groupList) ==
  IF groupList = <<>> THEN {} ELSE Range(groupList[1].elements)

\* C8: vector clustering is a partition. When processSVG returns, every
\* element with a resolved fill and fill opacity > 0 is in exactly one group,
\* exactly once; no other element is in any group; and the groups hold as
\* many shapes in total as there are such input shapes.
C8_Partition ==
  pc = "done" =>
    /\ \A id \in 1 .. Len(svgText) :
         Cardinality(Places(groups, id)) = IF id \in VisibleIds THEN 1 ELSE 0
    /\ TotalShapes(groups) = Cardinality(VisibleIds)
    /\ TotalShapes(groups) = Len(paths)

\* a finished clustering with several groups, a group of several shapes and
\* an element that was filtered out
C8_Witness ==
  /\ pc = "done"
  /\ Len(groups) >= 2
  /\ \E g \in 1 .. Len(groups) : Len(groups[g].elements) >= 2
  /\ VisibleIds # 1 .. Len(svgText)

\* the state of the grouping loop is first-fit in document order
FirstFitShape ==
  \A g \in 1 .. Len(groups) :
    LET els == groups[g].elements
    IN  /\ els # <<>>
        \* the representative colour is the colour of the group's first shape
        /\ groups[g].representativeColor = IngestedColor(svgText[els[1]])
        \* shapes are in document order inside a group, seeds across groups
        /\ \A k \in 1 .. Len(els) - 1 : els[k] < els[k + 1]
        /\ \A h \in 1 .. g - 1 : groups[h].elements[1] < els[1]
        /\ \A k \in 1 .. Len(els) :
             LET c == IngestedColor(svgText[els[k]])
             IN  \* no earlier group was within the threshold ...
                 /\ \A h \in 1 .. g - 1 :
                      ~WithinMaxDist(c, groups[h].representativeColor, svgTolerance)
                 \* ... and a shape that did not seed the group is within it
                 /\ k > 1 =>
                      WithinMaxDist(c, groups[g].representativeColor, svgTolerance)

\* one iteration keeps every group in place with its representative colour
\* and its shapes, and adds the shape to one group or appends one new group
FirstFitStep ==
  /\ Len(groups') >= Len(groups)
  /\ Len(groups') <= Len(groups) + 1
  /\ \A g \in 1 .. Len(groups) :
       /\ groups'[g].representativeColor = groups[g].representativeColor
       /\ Len(groups'[g].elements) >= Len(groups[g].elements)
       /\ SubSeq(groups'[g].elements, 1, Len(groups[g].elements)) = groups[g].elements

\* C9: vector clustering is first-fit in document order. Each shape is in the
\* first group, in creation order, whose representative colour is at distance
\* strictly less than tolerance * 2.55 from its colour, else it seeds a new
\* group appended at the end; a group's representative colour is the colour
\* of its first shape and never changes while clustering; the output order
\* is the order in which the groups were created.
C9_FirstFit == [](pc \in {"cluster", "done"} => FirstFitShape) /\ [][FirstFitStep]_vars

\* a shape sits in a group although a later group, already created when the
\* shape was placed, is strictly nearer to it
C9_Witness ==
  /\ pc = "done"
  /\ \E g \in 1 .. Len(groups) : \E h \in 1 .. Len(groups) :
       /\ g < h
       /\ \E k \in 1 .. Len(groups[g].elements) :
            LET id == groups[g].elements[k]
                c  == IngestedColor(svgText[id])
            IN  /\ groups[h].elements[1] < id
                /\ ColorDistanceSq(c, groups[h].representativeColor)
                     < ColorDistanceSq(c, groups[g].representativeColor)

\* C10 as stated: for a fixed document and tolerances t1 <= t2, the largest
\* group at t2 is at least as large as the largest group at t1.
C10_LargestGroupMonotone ==
  pc = "done" =>
    \A t2 \in Tolerances :
      t2 >= svgTolerance =>
        LargestGroupSize(ProcessSVG(svgText, t2)) >= LargestGroupSize(groups)

\* C10 amended: for a fixed document and tolerances t1 <= t2, the first group
\* (the one seeded by the first visible shape) at t2 holds every shape of the
\* first group at t1, so its size never decreases.
C10_FirstGroupMonotone ==
  pc = "done" =>
    \A t2 \in Tolerances :
      t2 >= svgTolerance =>
        FirstGroupShapes(groups) \subseteq FirstGroupShapes(ProcessSVG(svgText, t2))

\* raising the tolerance strictly grows the first group of a document
C10_Witness ==
  /\ pc = "done"
  /\ Len(groups) >= 2
  /\ \E t2 \in Tolerances :
       /\ t2 > svgTolerance
       /\ FirstGroupShapes(groups) # FirstGroupShapes(ProcessSVG(svgText, t2))

(***************************************************************************)
(* Claims about the layer edits (checked under LayerSpec, DeepSpec, Spec)  *)
(***************************************************************************)
\* the last operation was op and ran to its setState
Did(op) == hist.op = op /\ hist.outcome = "ok"

\* the shapes (vector) or member colours (raster) of a group
Members(g) ==
  IF IsSvgGroup(g) THEN Range(g.elements)
  ELSE IF IsRasterGroup(g) THEN Range(g.memberColors)
  ELSE {}

\* C1: within one decomposition the groups of the current list stay pairwise
\* non-overlapping. In every state reached by delete, reorder, merge,
\* undoDelete, undoReorder and undoMerge, no shape or member colour belongs
\* to more than one group of the list and no group occurs twice in it.
C1_NonOverlapping ==
  \A i \in 1 .. Len(colorGroups) : \A j \in 1 .. Len(colorGroups) :
    i < j => /\ Members(colorGroups[i]) \cap Members(colorGroups[j]) = {}
             /\ colorGroups[i] # colorGroups[j]

\* C2: undoDelete directly after delete(i) restores the exact group list of
\* before the delete, for every list and valid index, and leaves the
\* delete-undo stack as it was before the delete.
C2_UndoDeleteRestores ==
  (Did("undoDelete") /\ hist.prevOp = "delete") =>
    /\ colorGroups = hist.before.colorGroups
    /\ deletedGroups = hist.before.deletedGroups

\* a group that was not the last of its list is back in place, above an
\* older entry of the delete-undo stack
C2_Witness ==
  /\ Did("undoDelete")
  /\ hist.prevOp = "delete"
  /\ hist.arg < Len(colorGroups) - 1
  /\ deletedGroups # <<>>

\* the selected groups of a merge, in selection order
SelectedGroups(list, selection) ==
  [k \in 1 .. Len(selection) |-> At(list, selection[k])]

\* the number of shapes, or the total pixel count, of a group
Weight(g) == IF IsSvgGroup(g) THEN Len(g.elements) ELSE g.totalCount

\* the first selected group among those of the largest weight
Primary(selected) ==
  selected[CHOOSE k \in 1 .. Len(selected) :
             /\ \A j \in 1 .. Len(selected) : Weight(selected[j]) <= Weight(selected[k])
             /\ \A j \in 1 .. k - 1 : Weight(selected[j]) < Weight(selected[k])]

RECURSIVE SumOfWeights(_)
SumOfWeights(selected) ==
  IF selected = <<>> THEN 0
  ELSE Weight(Head(selected)) + SumOfWeights(Tail(selected))

\* list is what the merge of selection makes of the list before
MergeResult(before, selection, list) ==
  LET m        == SetMin(Range(selection))
      selected == SelectedGroups(before, selection)
      merged   == At(list, m)
  IN  /\ Len(list) = Len(before) - Len(selection) + 1
      \* the selected groups are gone, the others keep their order
      /\ RemoveAt(list, m) = WithoutIndices(before, Range(selection))
      /\ merged.representativeColor = Primary(selected).representativeColor
      /\ Members(merged) = UNION {Members(selected[k]) : k \in 1 .. Len(selected)}
      /\ Weight(merged) = SumOfWeights(selected)

\* C3: merge over a selection of at least two indices yields a list without
\* the selected groups, with the unselected groups in their order and one
\* merged group at index min(selected indices); its representative colour is
\* that of the selected group with the most shapes (highest total count),
\* ties going to the one selected first, and its content is the union of the
\* selected groups' shapes or member colours, with summed counts.
C3_MergeResult ==
  (hist.op = "merge" /\ Len(hist.pre.selectedGroupIndices) >= 2) =>
    /\ hist.outcome = "ok"
    /\ MergeResult(hist.pre.colorGroups, hist.pre.selectedGroupIndices, colorGroups)

\* a merge that ran to its setState built the list C3 describes
C3_EffectiveMerge ==
  Did("merge") =>
    MergeResult(hist.pre.colorGroups, hist.pre.selectedGroupIndices, colorGroups)

\* C4: a successful merge pushes the pre-merge full group list onto the
\* merge-undo stack (depth grows by exactly one), empties the delete-undo
\* stack and the reorder-undo stack whatever they held, and empties Selection.
C4_MergeStacks ==
  Did("merge") =>
    /\ mergeHistory = Append(hist.pre.mergeHistory, hist.pre.colorGroups)
    /\ deletedGroups = <<>>
    /\ reorderHistory = <<>>
    /\ selectedGroupIndices = <<>>

\* a merge in a state whose delete-undo and reorder-undo stacks held entries
C4_Witness ==
  /\ Did("merge")
  /\ hist.had.deleted
  /\ hist.had.reorder

\* the step is a layer edit op that took effect
Edit(op) == edits' = edits + 1 /\ hist'.op = op

\* the step empties a stack that held something
Empties(stack, stackAfter) == stack # <<>> /\ stackAfter = <<>>

\* the step starts or discards a decomposition: an upload, a (re)processing,
\* Start Over
Redecomposes == edits' = 0 /\ hist'.op \in {"upload", "processImage", "reset"}

C5_Step ==
  /\ Edit("undoDelete") =>
       /\ deletedGroups # <<>>
       /\ deletedGroups' = Front(deletedGroups)
       /\ UNCHANGED <<reorderHistory, mergeHistory>>
  /\ Edit("undoReorder") =>
       /\ reorderHistory # <<>>
       /\ reorderHistory' = Front(reorderHistory)
       /\ UNCHANGED <<deletedGroups, mergeHistory>>
  /\ Edit("undoMerge") =>
       /\ mergeHistory # <<>>
       /\ mergeHistory' = Front(mergeHistory)
       /\ UNCHANGED <<deletedGroups, reorderHistory>>
  /\ Edit("delete") =>
       /\ deletedGroups' # <<>>
       /\ Front(deletedGroups') = deletedGroups
       /\ UNCHANGED <<reorderHistory, mergeHistory>>
  /\ Edit("reorder") =>
       /\ reorderHistory' # <<>>
       /\ Front(reorderHistory') = reorderHistory
       /\ UNCHANGED <<deletedGroups, mergeHistory>>
  /\ (\/ Empties(deletedGroups, deletedGroups') /\ ~Edit("undoDelete")
      \/ Empties(reorderHistory, reorderHistory') /\ ~Edit("undoReorder")
      \/ Empties(mergeHistory, mergeHistory') /\ ~Edit("undoMerge"))
       => Edit("merge") \/ Redecomposes

\* C5: the three undo stacks are independent. undoDelete, undoReorder and
\* undoMerge each pop exactly one entry from their own stack and leave the
\* other two unchanged; delete and reorder each push onto their own stack
\* only; a stack is emptied by another operation than its own undo only in a
\* merge and where a decomposition is started or discarded.
C5_StackIndependence == [][C5_Step]_vars

\* an undoReorder took its entry while the delete-undo stack held one
C5_Witness ==
  /\ Did("undoReorder")
  /\ deletedGroups # <<>>

\* C6: Selection is empty right after every delete, every effective reorder,
\* every merge and every start of a new decomposition (file upload, or
\* reprocessing after a tolerance change).
C6_SelectionCleared ==
  (\/ Did("delete") \/ Did("reorder") \/ Did("merge")
   \/ Did("upload") \/ Did("processImage"))
    => selectedGroupIndices = <<>>

\* the file was reprocessed at a new tolerance while groups were selected
C6_Witness ==
  /\ Did("processImage")
  /\ hist.had.selection
  /\ tolerance # InitialTolerance
  /\ colorGroups # <<>>

\* C7: precondition failures are no-ops. A merge with fewer than two selected
\* indices, and an undoDelete, undoReorder or undoMerge on an empty stack,
\* leave the group list, the three undo stacks and Selection unchanged and
\* raise no error.
C7_FailedPreconditionNoOp ==
  (\/ hist.op = "merge" /\ Len(hist.pre.selectedGroupIndices) < 2
   \/ hist.op = "undoDelete" /\ ~hist.had.deleted
   \/ hist.op = "undoReorder" /\ ~hist.had.reorder
   \/ hist.op = "undoMerge" /\ ~hist.had.merge)
    => /\ hist.outcome = "noop"
       /\ Snapshot = hist.pre

\* a merge was asked for with one group selected, in a state with an entry
\* on the delete-undo stack
C7_Witness ==
  /\ hist.op = "merge"
  /\ Len(hist.pre.selectedGroupIndices) = 1
  /\ selectedGroupIndices # <<>>
  /\ deletedGroups # <<>>

(***************************************************************************)
(* Claims about processRaster and the raster canvases                      *)
(***************************************************************************)
\* processRaster has resolved with the groups in clusters
Resolved == rasterPc \in {"done", "drawn"}

\* the colours a group list shows: representatives and members
GroupColors(list) ==
  {list[k].representativeColor : k \in DOMAIN list}
    \cup UNION {Range(list[k].memberColors) : k \in DOMAIN list}

\* C11: pure white is never the representative or a member colour of a group
\* that processRaster resolves with.
C11_NoWhiteGroup == Resolved => White \notin GroupColors(clusters)

\* the colour of a pixel
ColorOf(px) == Rgb(px.r, px.g, px.b)

\* the squared distance from a pixel to the representative of list[k]
DistSqTo(list, k, px) == ColorDistanceSq(ColorOf(px), list[k].representativeColor)

\* the groups of the list no other group is nearer to the pixel than
NearestGroups(list, px) ==
  {k \in DOMAIN list : \A j \in DOMAIN list : DistSqTo(list, k, px) <= DistSqTo(list, j, px)}

\* minDistance < tolerance * 2.55, in integers
BelowThreshold(distSq, tol) == 10000 * distSq < (255 * tol) * (255 * tol)

\* what the reconstruction must show for a source pixel
BestFitPixel(list, px, tol) ==
  IF px.a < 128 \/ list = <<>> THEN [opaque |-> FALSE]
  ELSE LET k == SetMin(NearestGroups(list, px))
       IN  IF BelowThreshold(DistSqTo(list, k, px), tol)
             THEN [opaque |-> TRUE, color |-> list[k].representativeColor]
             ELSE [opaque |-> FALSE]

Previewed == rasterPc = "drawn" /\ canvas.drawn = "preview"

\* C13: in the raster reconstruction every pixel of alpha >= 128 shows, fully
\* opaque, the representative colour of the group at minimum distance (lowest
\* index on ties) when that distance is below tolerance * 2.55 and is
\* transparent otherwise; pixels of alpha < 128 are transparent, and with an
\* empty list every pixel is transparent.
C13_BestFit ==
  Previewed =>
    \A p \in DOMAIN imageData :
      LET expected == BestFitPixel(clusters, imageData[p], canvas.tolerance)
      IN  IF expected.opaque
            THEN canvas.pixels[p].a = 255 /\ ColorOf(canvas.pixels[p]) = expected.color
            ELSE canvas.pixels[p].a = 0

\* a preview in which an opaque pixel is equally near two groups and is
\* recoloured, next to a pixel of alpha below 128
C13_Witness ==
  /\ Previewed
  /\ \E p \in DOMAIN imageData :
       /\ imageData[p].a >= 128
       /\ Cardinality(NearestGroups(clusters, imageData[p])) = 2
       /\ canvas.pixels[p].a = 255
  /\ \E p \in DOMAIN imageData : imageData[p].a < 128

\* the pixels the sampling loop visits, and those of them it counts
SampledPixels ==
  {p \in DOMAIN imageData : (p - 1) % SampleRate(Len(imageData)) = 0}

CountedPixels == {p \in SampledPixels : imageData[p].a >= 128}

CountedColors == {ColorOf(imageData[p]) : p \in CountedPixels}

\* the number of counted pixels of a colour
Frequency(color) == Cardinality({p \in CountedPixels : ColorOf(imageData[p]) = color})

\* the places (group, position) at which a colour is a member
MemberPlaces(list, color) ==
  {pl \in (DOMAIN list) \X (1 .. MaxPixels + 1) :
     /\ pl[2] <= Len(list[pl[1]].memberColors)
     /\ list[pl[1]].memberColors[pl[2]] = color}

RECURSIVE SumFrequencies(_)
SumFrequencies(colors) ==
  IF colors = <<>> THEN 0 ELSE Frequency(Head(colors)) + SumFrequencies(Tail(colors))

RECURSIVE SumTotals(_)
SumTotals(list) ==
  IF list = <<>> THEN 0 ELSE Head(list).totalCount + SumTotals(Tail(list))

\* the position of a colour in sortedColors
Rank(color) == SetMin({k \in DOMAIN sortedColors : sortedColors[k].color = color})

\* the groups are first-fit over sortedColors: a group is older than another
\* when its representative comes first in sortedColors
FirstFitColors ==
  /\ \A k \in 1 .. Len(sortedColors) - 1 : sortedColors[k].count >= sortedColors[k + 1].count
  /\ \A k \in DOMAIN sortedColors : sortedColors[k].count = Frequency(sortedColors[k].color)
  /\ \A g \in DOMAIN clusters :
       LET members == clusters[g].memberColors
       IN  /\ members # <<>>
           /\ clusters[g].representativeColor = members[1]
           /\ \A k \in 1 .. Len(members) - 1 : Rank(members[k]) < Rank(members[k + 1])
           /\ \A k \in DOMAIN members :
                /\ \A h \in DOMAIN clusters :
                     Rank(clusters[h].representativeColor) < Rank(members[1]) =>
                       ~WithinMaxDist(members[k], clusters[h].representativeColor,
                                      rasterTolerance)
                /\ k > 1 =>
                     WithinMaxDist(members[k], clusters[g].representativeColor,
                                   rasterTolerance)

\* C15: raster clustering conserves the samples. Pixels of alpha < 128 are
\* counted in no group; every distinct counted colour is in the member list of
\* exactly one group, exactly once, placed first-fit over the colours taken in
\* descending frequency; a group's totalCount is the sum of its members'
\* counts; and the totals add up to the number of counted pixels.
C15_Conservation ==
  /\ rasterPc \in {"cluster", "done", "drawn"} => FirstFitColors
  /\ Resolved =>
       /\ \A px \in PixelKinds :
            Cardinality(MemberPlaces(clusters, ColorOf(px)))
              = IF ColorOf(px) \in CountedColors THEN 1 ELSE 0
       /\ \A g \in DOMAIN clusters :
            clusters[g].totalCount = SumFrequencies(clusters[g].memberColors)
       /\ SumTotals(clusters) = Cardinality(CountedPixels)

\* a resolved clustering of several groups, one of several colours, from a
\* bitmap with a pixel of alpha below 128 whose colour is in no group
C15_Witness ==
  /\ Resolved
  /\ Len(clusters) >= 2
  /\ \E g \in DOMAIN clusters : Len(clusters[g].memberColors) >= 2
  /\ \E p \in DOMAIN imageData :
       imageData[p].a < 128 /\ ColorOf(imageData[p]) \notin GroupColors(clusters)

\* a vector drawing of the bitmap: one shape per pixel, filled with its colour,
\* invisible where the pixel's alpha is below 128
AsShapes(data) ==
  [p \in DOMAIN data |->
     [fill |-> ColorOf(data[p]), fillOpacity |-> IF data[p].a >= 128 THEN 100 ELSE 0]]

\* a group of the raster list was created after the group that follows it
SortedAhead(list) ==
  \E k \in 1 .. Len(list) - 1 :
    Rank(list[k].representativeColor) > Rank(list[k + 1].representativeColor)

\* C16: the raster group list is ordered by non-increasing total count; the
\* vector group list keeps creation order (the order of the groups' first
\* shapes in the document), whatever the groups' sizes.
C16_Ordering ==
  Resolved =>
    /\ \A k \in 1 .. Len(clusters) - 1 : clusters[k].totalCount >= clusters[k + 1].totalCount
    /\ LET vector == ProcessSVG(AsShapes(imageData), rasterTolerance)
       IN  \A k \in 1 .. Len(vector) - 1 : vector[k].elements[1] < vector[k + 1].elements[1]

\* the sort moved a later, larger raster group ahead, while the vector list of
\* the same colours keeps a smaller group ahead of a larger one
C16_Witness ==
  /\ Resolved
  /\ SortedAhead(clusters)
  /\ LET vector == ProcessSVG(AsShapes(imageData), rasterTolerance)
     IN  \E k \in 1 .. Len(vector) - 1 :
           Len(vector[k].elements) < Len(vector[k + 1].elements)

(***************************************************************************)
(* Claims about the PNG export in a session (checked under ExportSpec)     *)
(***************************************************************************)
\* the last step exported a card of the current list from the bitmap
Exported == hist.op = "download" /\ download.drawn = "export"

\* the export kept the pixel
Kept(pixels, p) == pixels[p].a > 0

\* the group at 0-based index is the nearest group of the current list to the
\* pixel (lowest index on ties), at a distance below the threshold
NearestIs(index, px) ==
  LET k == SetMin(NearestGroups(colorGroups, px))
  IN  k = index + 1 /\ BelowThreshold(DistSqTo(colorGroups, k, px), tolerance)

\* C14: the raster export of one group keeps a pixel exactly when its alpha is
\* at least 128, the nearest group over the current list is the exported group
\* and the distance is below the threshold; kept pixels keep their original
\* colour and alpha, the others are transparent; so no pixel is kept in the
\* exports of two groups of the list.
C14_SingleExport ==
  Exported =>
    \A p \in DOMAIN originalImageData :
      LET px == originalImageData[p]
      IN  /\ Kept(download.pixels, p) <=> (px.a >= 128 /\ NearestIs(download.index, px))
          /\ Kept(download.pixels, p) => download.pixels[p] = px
          /\ ~Kept(download.pixels, p) => download.pixels[p].a = 0
          /\ \A j \in Indices(colorGroups) :
               j # download.index =>
                 ~(/\ Kept(download.pixels, p)
                   /\ Kept(ExportImage(colorGroups, j, originalImageData, tolerance), p))

(***************************************************************************)
(* Claims about the life cycle of a decomposition (checked under Spec)     *)
(***************************************************************************)
\* the last step started a decomposition or installed its groups
Decomposed == hist.op \in {"processImage", "rasterLoaded"}

\* C12: a new decomposition replaces the previous one entirely. Whenever a
\* decomposition has just been started or its group list installed, the
\* delete-undo, reorder-undo and merge-undo stacks and the selection are
\* empty, so that no undo can bring back a group of the previous
\* decomposition.
C12_ReplacedEntirely ==
  Decomposed =>
    /\ deletedGroups = <<>>
    /\ reorderHistory = <<>>
    /\ mergeHistory = <<>>
    /\ selectedGroupIndices = <<>>

(***************************************************************************)
(* Claims about termination (checked under LiveSpec)                       *)
(***************************************************************************)
\* C20: every decomposition that is started eventually finishes: once the
\* loading flag is set, a state is eventually reached in which it is cleared.
C20_LoadingEnds == isLoading ~> ~isLoading

(***************************************************************************)
(* Claims about transformSvgElements (checked under PathSpec)              *)
(***************************************************************************)
Transformed == transformed # <<>>

\* the view box attribute is four numbers with a positive width and height
ValidViewBox ==
  /\ dimensions.viewBox # NoAttribute
  /\ Len(dimensions.viewBox) = 4
  /\ \A k \in 1 .. 4 :
       dimensions.viewBox[k].digits # <<>> /\ dimensions.viewBox[k].tail = ""
  /\ dimensions.viewBox[3].digits[1] > 0
  /\ dimensions.viewBox[4].digits[1] > 0

\* the numbers x, y, w, h of a valid view box
Box == [k \in 1 .. 4 |-> dimensions.viewBox[k].digits[1]]

Larger == IF Box[3] >= Box[4] THEN Box[3] ELSE Box[4]

\* the fraction q equals (p - origin) * scale + (600 - size * scale) / 2 for
\* scale = 600 / Larger, that is (1200 * (p - origin) + 600 * (Larger - size))
\* / (2 * Larger)
IsMapped(q, p, origin, size) ==
  /\ ~IsNaN(q)
  /\ q[1] * (2 * Larger) = q[2] * (1200 * (p - origin) + 600 * (Larger - size))

\* commands whose arguments are absolute coordinate pairs
PairCommands == {"M", "L", "C", "S", "Q", "T"}

InvalidViewBox ==
  \/ dimensions.viewBox = NoAttribute
  \/ Len(dimensions.viewBox) # 4
  \/ \E k \in DOMAIN dimensions.viewBox :
       dimensions.viewBox[k].digits = <<>> \/ dimensions.viewBox[k].tail # ""
  \/ dimensions.viewBox[3].digits[1] <= 0
  \/ dimensions.viewBox[4].digits[1] <= 0

\* the element is emitted as it was input
EmittedAsInput(k) ==
  /\ transformed[k].transform = pathData[k].transform
  /\ Len(transformed[k].d) = Len(pathData[k].d)
  /\ \A c \in DOMAIN pathData[k].d :
       /\ transformed[k].d[c].command = pathData[k].d[c].command
       /\ Len(transformed[k].d[c].args) = Len(pathData[k].d[c].args)
       /\ \A i \in DOMAIN pathData[k].d[c].args :
            transformed[k].d[c].args[i] = <<pathData[k].d[c].args[i], 1>>

\* C18: when the view box is missing, is not a 4-tuple, has a non-numeric part
\* or has w <= 0 or h <= 0, normalization is skipped: every shape is emitted
\* exactly as it was input, path data and transform attribute unmodified.
C18_SkippedWhenInvalid ==
  Transformed /\ InvalidViewBox => \A k \in DOMAIN pathData : EmittedAsInput(k)

\* the positions, among the seven arguments of an arc, of the rotation and
\* the two flags
ArcPassThrough == {3, 4, 5}

\* C19: path normalization honours command arity. When the shapes are
\* normalized, every output command has as many numeric arguments as the
\* input command (several arcs after one A, several values after one H or V,
\* several pairs after one L included); the rotation and the flags of an arc
\* pass through unchanged, and Z passes through unchanged.
C19_ArityHonoured ==
  Transformed /\ ValidViewBox =>
    \A c \in DOMAIN pathData[1].d :
      LET cmd == pathData[1].d[c]
          out == transformed[1].d[c]
      IN  /\ out.command = cmd.command
          /\ Len(out.args) = Len(cmd.args)
          /\ cmd.command \in {"A", "a"} =>
               \A i \in DOMAIN cmd.args :
                 (((i - 1) % 7) + 1) \in ArcPassThrough => out.args[i] = <<cmd.args[i], 1>>

(***************************************************************************)
(* Claims about reorder and the undo operations                            *)
(***************************************************************************)
\* the step is a drop that returned early
DropReturns == hist' # hist /\ hist'.op = "reorder" /\ hist'.outcome = "noop"

\* after is list with the group of index from moved to index to
Moved(list, from, to, after) ==
  /\ from \in Indices(list)
  /\ Len(after) = Len(list)
  /\ At(after, to) = At(list, from)
  /\ RemoveAt(after, to) = RemoveAt(list, from)

C21_Step ==
  /\ Edit("reorder") =>
       /\ draggedItem # hist'.arg
       /\ reorderHistory' = Append(reorderHistory, colorGroups)
       /\ Moved(colorGroups, draggedItem, hist'.arg, colorGroups')
       /\ selectedGroupIndices' = <<>>
  /\ DropReturns =>
       UNCHANGED <<layerVars, draggedItem, edits>>

\* C21: reorder(from, to) with from # to pushes the pre-move full group list
\* onto the reorder-undo stack, then moves the group of index from to index
\* to, keeping the relative order of all other groups and the length of the
\* list, and clears Selection; a move with from = to, or with no drag in
\* progress, changes no state and pushes nothing.
C21_Reorder == [][C21_Step]_vars

\* s is an initial part of t
IsPrefix(s, t) == Len(s) <= Len(t) /\ SubSeq(t, 1, Len(s)) = s

\* the step pushes onto the stack, pops from it, empties it or leaves it: the
\* snapshots that stay on it are the ones that were there
KeepsSnapshots(stack, stackAfter) ==
  IsPrefix(stack, stackAfter) \/ IsPrefix(stackAfter, stack)

C22_Step ==
  /\ Edit("undoReorder") =>
       /\ colorGroups' = Last(reorderHistory)
       /\ Did("reorder") => colorGroups' = hist.pre.colorGroups
  /\ Edit("undoMerge") =>
       /\ colorGroups' = Last(mergeHistory)
       /\ Did("merge") => colorGroups' = hist.pre.colorGroups
  /\ KeepsSnapshots(reorderHistory, reorderHistory')
  /\ KeepsSnapshots(mergeHistory, mergeHistory')

\* C22: undoReorder and undoMerge replace the current list wholesale with the
\* most recently pushed snapshot of their own stack. A reorder followed
\* directly by undoReorder, and a merge followed directly by undoMerge, each
\* restore the exact group list of before the operation, and later
\* operations never alter a snapshot already on a stack.
C22_UndoRestoresSnapshot == [][C22_Step]_vars

\* the second of two merges was undone: the list is the one of before that
\* merge and the snapshot of the first merge is still on the stack
C22_Witness ==
  /\ Did("undoMerge")
  /\ hist.prevOp = "merge"
  /\ hist.before.mergeHistory # <<>>
  /\ colorGroups = hist.before.colorGroups
  /\ colorGroups # Head(mergeHistory)

\* C23: undoDelete on a non-empty delete-undo stack pops the most recent
\* entry and re-inserts its group at index min(originalIndex, length of the
\* current list): the list grows by exactly one, the insertion index is a
\* valid position of it, and the groups already in the list keep their
\* relative order.
C23_UndoDeleteInserts ==
  (hist.op = "undoDelete" /\ hist.had.deleted) =>
    /\ hist.outcome = "ok"
    /\ LET lastDeleted == Last(hist.pre.deletedGroups)
           insertAt    == Min2(lastDeleted.originalIndex, Len(hist.pre.colorGroups))
       IN  /\ deletedGroups = Front(hist.pre.deletedGroups)
           /\ hist.arg = insertAt
           /\ insertAt \in 0 .. Len(hist.pre.colorGroups)
           /\ Len(colorGroups) = Len(hist.pre.colorGroups) + 1
           /\ At(colorGroups, insertAt) = lastDeleted.group
           /\ RemoveAt(colorGroups, insertAt) = hist.pre.colorGroups

\* a group deleted from the end came back at the end of a list that was
\* reordered in between
C23_Witness ==
  /\ Did("undoDelete")
  /\ hist.prevOp = "reorder"
  /\ hist.arg = Len(hist.pre.colorGroups)
  /\ hist.arg > 1
  /\ Front(colorGroups) = hist.pre.colorGroups

\* C24: deletes undo in LIFO order. For any list and any sequence of k
\* deletes at valid indices, followed by k undoDelete calls with no reorder,
\* merge or other undo in between, the group list is restored exactly
\* (content and order) to what it was before the first delete and the
\* delete-undo stack returns to its earlier depth. Every undoDelete of the
\* run completes such a sequence: that of the deletes it and the undoDeletes
\* before it answered.
C24_DeletesUndoLifo ==
  (Did("undoDelete") /\ hist.run.undone > 0) =>
    /\ colorGroups = hist.run.target.colorGroups
    /\ Len(deletedGroups) = hist.run.target.depth

\* three deletes in a row, the first of them on a reordered list and not at
\* its end, were all undone
C24_Witness ==
  /\ Did("undoDelete")
  /\ hist.run.undone = 3
  /\ hist.run.starts = <<>>
  /\ reorderHistory # <<>>
  /\ deletedGroups = <<>>
  /\ Len(colorGroups) = 3

\* C25: Selection only ever holds valid indices. In every reachable state,
\* after any sequence of select, delete, reorder, merge and the three undo
\* operations, every index in Selection is smaller than the length of the
\* current group list, so merge never reads a group that does not exist.
C25_SelectionValid ==
  \A k \in 1 .. Len(selectedGroupIndices) :
    selectedGroupIndices[k] \in Indices(colorGroups)

\* the groups of the list are of the kind the file decomposes into
GroupsOfFile(f) ==
  \A i \in Indices(colorGroups) :
    At(colorGroups, i) # Undefined =>
      IF InputFiles[f].type = SvgMime THEN IsSvgGroup(At(colorGroups, i))
      ELSE IsRasterGroup(At(colorGroups, i))

\* C26: a decomposition result is only installed for the input that is
\* current when it completes. A raster decomposition that was in flight when
\* the user reset (Start Over) or uploaded another file never writes its
\* late result into the state: without a file the group list is empty, and
\* the installed groups derive from the current file.
C26_OnlyCurrentInstalled ==
  /\ Did("rasterLoaded") => hist.arg = file
  /\ file = 0 => colorGroups = <<>>
  /\ file # 0 => GroupsOfFile(file)

(***************************************************************************)
(* Claims about processSVG at tolerance 0 (checked under ClusterSpec)      *)
(***************************************************************************)
\* C27: at tolerance 0 the threshold is 0 and the comparison is strict, so
\* vector clustering puts every shape in a group of its own: the number of
\* groups equals the number of shapes, even when several shapes have exactly
\* the same fill colour.
C27_ZeroToleranceSingletons ==
  (pc = "done" /\ svgTolerance = 0) =>
    /\ Len(groups) = Cardinality(VisibleIds)
    /\ \A g \in 1 .. Len(groups) : Len(groups[g].elements) = 1

\* a document clustered at tolerance 0 in which two shapes have the same fill
C27_Witness ==
  /\ pc = "done"
  /\ svgTolerance = 0
  /\ \E i \in VisibleIds : \E j \in VisibleIds :
       /\ i < j
       /\ svgText[i].fill = svgText[j].fill
  /\ Len(groups) >= 3

====
